---- MODULE Spec2Model ----
(***************************************************************************)
(* Altron-Core: the streaming agent of altron_core/core/agent.py (token    *)
(* demultiplexer, tool-call accumulator, recursive continuation) and the   *)
(* thread-persisting agent of altron_core/core3/agent.py over the thread   *)
(* store of altron_core/core/threads.py; the store functions called one    *)
(* at a time; the websocket handler of altron_core/server/server.py over   *)
(* LMStudio_IE.infer_stream; and two invocations at once. Each is a        *)
(* specification of its own over the shared variables.                     *)
(*                                                                         *)
(* Text is modelled as a sequence of atoms: a delta of the backend is one  *)
(* atom, string concatenation is \o, and a marker the code prepends is an  *)
(* atom of its own.                                                        *)
(***************************************************************************)
EXTENDS Integers, Sequences, FiniteSets, TLC

\* ----------------------------------------------------------------- bounds
\* Fragments the backend delivers during one top-level invocation.
MaxChunks == 3
\* Nested Agent.invoke frames (the source recurses without a bound).
MaxDepth == 2

\* ------------------------------------------------------- program constants
\* The markers built from DEFAULT_REASONING_INDICATOR and DEFAUTL_TOOL_CALL_INDICATOR.
ReasoningOpen == "<THOUGHT>"
ReasoningClose == "</THOUGHT>"
ToolCallOpen == "<TOOL_CALL>"
ToolCallClose == "</TOOL_CALL>"
NewLine == "\n"

\* --------------------------------------------------------- input alphabets
\* A key that the fragment does not carry.
NoId == "<no id>"
NoName == "<no name>"
Ids == {"c1", "c2"}
\* calculator is the one tool of the GENERALIST role.
RegisteredTools == {"calculator"}
\* Argument fragments: the two of Scenario B, {"a":  and  1}  , and {}.
ArgOpen == "{\"a\":"
ArgClose == "1}"
ArgWhole == "{}"
\* Whole argument objects of calculator: 1 + 1, and 1 / 0.
ArgAdd == "{\"operation\":\"add\",\"a\":1,\"b\":1}"
ArgDivide == "{\"operation\":\"divide\",\"a\":1,\"b\":0}"
ArgFrags == {ArgOpen, ArgClose, ArgWhole, ArgAdd, ArgDivide}
\* A tool name that no role registers.
UnregisteredTool == "search"
TextDeltas == {"Hi", " there"}

\* One backend fragment: chunk["delta"], flattened.  has_other stands for a
\* key that is none of tool_calls, content, reasoning_content (e.g. role).
Fragment(tc, i, n, a, hc, c, hr, r, o) ==
    [has_tool_calls |-> tc, id |-> i, name |-> n, arguments |-> a,
     has_content |-> hc, content |-> c,
     has_reasoning |-> hr, reasoning_content |-> r, has_other |-> o]

ToolFragment(i, n, a) == Fragment(TRUE, i, n, a, FALSE, "", FALSE, "", FALSE)
\* A fragment that opens a call carries id and name; one that continues a
\* call may omit either; Scenario B opens with a fragment that has no id.
ToolFragments ==
    {ToolFragment(i, "calculator", a) : i \in Ids, a \in {ArgOpen, ArgWhole}}
        \cup {ToolFragment(NoId, NoName, a) : a \in {ArgOpen, ArgClose}}
        \cup {ToolFragment(i, NoName, ArgClose) : i \in Ids}
        \cup {ToolFragment(NoId, "calculator", ArgOpen)}
        \cup {ToolFragment("c1", "calculator", ArgDivide),
              ToolFragment("c2", "calculator", ArgAdd),
              ToolFragment("c1", UnregisteredTool, ArgWhole)}
ContentFragments ==
    {Fragment(FALSE, NoId, NoName, "", TRUE, c, FALSE, "", FALSE) : c \in TextDeltas}
ReasoningFragments ==
    {Fragment(FALSE, NoId, NoName, "", FALSE, "", TRUE, r, FALSE) : r \in TextDeltas}
\* Fragments that carry two recognised fields at once.
MixedFragments ==
    {Fragment(TRUE, "c1", "calculator", ArgWhole, TRUE, "Hi", FALSE, "", FALSE),
     Fragment(FALSE, NoId, NoName, "", TRUE, "Hi", TRUE, " there", FALSE)}
\* A non-empty delta with no recognised field.
UnknownFragments ==
    {Fragment(FALSE, NoId, NoName, "", FALSE, "", FALSE, "", TRUE)}
\* The empty delta that ends the stream.
EmptyFragment == Fragment(FALSE, NoId, NoName, "", FALSE, "", FALSE, "", FALSE)
Fragments ==
    ToolFragments \cup ContentFragments \cup ReasoningFragments
        \cup MixedFragments \cup UnknownFragments \cup {EmptyFragment}

\* `not chunk["delta"]`
DeltaIsEmpty(chunk) ==
    /\ ~chunk.has_tool_calls
    /\ ~chunk.has_content
    /\ ~chunk.has_reasoning
    /\ ~chunk.has_other

\* ---------------------------------------------------------------- messages
Message(role, content, tool_calls, tool_call_id) ==
    [role |-> role, content |-> content, tool_calls |-> tool_calls,
     tool_call_id |-> tool_call_id]
UserMessage == Message("user", <<"q">>, <<>>, NoId)
PriorMessage == Message("assistant", <<"p">>, <<>>, NoId)
SystemPrompt == Message("system", <<"You are a generalist agent.">>, <<>>, NoId)
\* The message lists a caller hands to Agent.invoke.
InputMessageLists == {<<>>, <<UserMessage>>, <<UserMessage, PriorMessage, UserMessage>>}

RECURSIVE Concat(_)
Concat(ss) == IF ss = <<>> THEN <<>> ELSE Head(ss) \o Concat(Tail(ss))

VARIABLES
    pc,                 \* position of the running Agent.invoke generator
    frames,             \* suspended outer invocations, innermost last
    messages,           \* the list object the caller passed to invoke
    _messages,          \* _messages: the copy invoke works on
    response_text,      \* invoke's response buffer
    prev_tool_request,  \* _process_stream: <<>> is None
    tool_requests,      \* _process_stream: completed requests
    is_reasoning,       \* _process_stream
    chunks,             \* fragments read from the backend in this turn
    consumed,           \* fragments read since the top-level call
    yielded,            \* tokens yielded to the top-level caller
    emitted,            \* tokens the current _process_stream yielded, with their kind
    retval,             \* Message carried by StopIteration, <<>> if none
    error               \* exception that left invoke, <<>> if none

VARIABLES
    store,              \* the thread files, by thread id
    store0,             \* the thread files when the invocation started
    thread_id,          \* core3 Agent.invoke: argument
    user_message,       \* core3 Agent.invoke: argument
    pc3,                \* position of the core3 Agent.invoke generator
    thread,             \* the loaded MessageThread, <<>> before the load
    responses,          \* what the engine returned
    next_response,      \* index of the response loop
    events,             \* StatePackets yielded so far
    infer_calls,        \* calls of InferenceEngine.infer
    save_calls,         \* calls of save_thread
    error3              \* exception that left core3 invoke, <<>> if none

core3_vars ==
    <<store, store0, thread_id, user_message, pc3, thread, responses,
      next_response, events, infer_calls, save_calls, error3>>

agent_vars ==
    <<pc, frames, messages, _messages, response_text, prev_tool_request,
      tool_requests, is_reasoning, chunks, consumed, yielded,
      emitted, retval, error>>

VARIABLES
    held,               \* the MessageThread a caller of the store holds, <<>> if none
    loaded_file,        \* the thread file as it was when held was obtained
    appended,           \* messages appended to held since then
    last_op,            \* the last call of a store function and how it ended
    op_count            \* calls of store functions so far

VARIABLES
    pcs,                \* position of the converse handler of server.py
    connected,          \* converse: local flag
    channel,            \* the websocket: "open", "closed" by the handler, "broken"
    packet,             \* the text the client sends first
    state,              \* converse: the loop variable, <<>> before the first event
    fetched,            \* events the handler took from agent.invoke
    send_calls,         \* calls of websocket.send_text
    sent,               \* events the websocket accepted
    send_failed,        \* a call of send_text raised
    agent_pc,           \* position of the agent.invoke generator
    engine_pc,          \* position of the infer_stream generator
    response_stream,    \* the backend stream: "unopened", "open", "closed"
    read_chunks         \* chunks read from response_stream

VARIABLES
    par_id,             \* two invocations at once: thread_id, by invocation
    par_pc,             \* position of each Agent.invoke generator
    par_thread,         \* the MessageThread objects, <<>> before the load
    par_context,        \* the messages each call of infer was given
    par_responses       \* what the engine returned, by invocation

VARIABLES
    disk,               \* the files on disk, by absolute path
    cwd,                \* the working directory of the process
    db_last,            \* the last call of a DataBase method and how it ended
    db_count            \* calls of DataBase methods so far

VARIABLES
    deltas,             \* the deltas the backend stream delivers, in order
    ie_pc,              \* position of the infer_stream generator
    ie_read,            \* deltas read from the backend stream
    ie_yielded          \* items infer_stream yielded so far

VARIABLES
    _tools,             \* ToolExecutor._tools
    _lookup,            \* ToolExecutor._lookup
    tool_ops            \* calls of set_tools, add_tools and remove_tools so far

VARIABLES
    max_messages_arg,   \* ChatContextManager(max_messages = n): the argument
    max_messages,       \* ChatContextManager.max_messages
    chat_history,       \* ChatContextManager.chat_history
    ctx_added,          \* the messages of the exchanges so far, in order
    ctx_ops             \* calls on the context manager so far

store_vars == <<held, loaded_file, appended, last_op, op_count>>

db_vars == <<disk, cwd, db_last, db_count>>
ie_vars == <<deltas, ie_pc, ie_read, ie_yielded>>
tool_vars == <<_tools, _lookup, tool_ops>>
ctx_vars ==
    <<max_messages_arg, max_messages, chat_history, ctx_added, ctx_ops>>

server_vars ==
    <<pcs, connected, channel, packet, state, fetched, send_calls, sent,
      send_failed, agent_pc, engine_pc, response_stream, read_chunks>>

par_vars == <<par_id, par_pc, par_thread, par_context, par_responses>>

\* What an action of one component leaves alone.
outside_agent ==
    <<core3_vars, store_vars, server_vars, par_vars, db_vars, ie_vars,
      tool_vars, ctx_vars>>
outside_core3 ==
    <<agent_vars, store_vars, server_vars, par_vars, db_vars, ie_vars,
      tool_vars, ctx_vars>>
outside_store ==
    <<agent_vars, store0, thread_id, user_message, pc3, thread, responses,
      next_response, events, infer_calls, save_calls, error3, server_vars,
      par_vars, db_vars, ie_vars, tool_vars, ctx_vars>>
outside_server ==
    <<agent_vars, core3_vars, store_vars, par_vars, db_vars, ie_vars,
      tool_vars, ctx_vars>>
outside_par ==
    <<agent_vars, thread_id, user_message, pc3, thread, responses,
      next_response, events, infer_calls, save_calls, error3, store_vars,
      server_vars, db_vars, ie_vars, tool_vars, ctx_vars>>
outside_db ==
    <<agent_vars, core3_vars, store_vars, server_vars, par_vars, ie_vars,
      tool_vars, ctx_vars>>
outside_ie ==
    <<agent_vars, core3_vars, store_vars, server_vars, par_vars, db_vars,
      tool_vars, ctx_vars>>
outside_tools ==
    <<agent_vars, core3_vars, store_vars, server_vars, par_vars, db_vars,
      ie_vars, ctx_vars>>
outside_ctx ==
    <<agent_vars, core3_vars, store_vars, server_vars, par_vars, db_vars,
      ie_vars, tool_vars>>

\* ------------------------------------------------------------ thread store
\* Agent.invoke of core3 uses the value it loads as a MessageThread
\* (thread.messages, save_thread(thread)): the store of
\* altron_core/core/threads.py, one JSON file per thread id.
ThreadIds == {"t1", "t2"}
\* A thread file: absent, not JSON, or the JSON of a MessageThread.
AbsentFile == [state |-> "absent", title |-> "", messages |-> <<>>]
CorruptFile == [state |-> "corrupt", title |-> "", messages |-> <<>>]
DEFAULT_THREAD_TITLE == "New Thread"
EMPTY_MESSAGE_TEXT == "[[No Text Content]]"
\* Message: text, role and the creation timestamp.
Message3(role, text, timestamp) ==
    [text |-> text, role |-> role, timestamp |-> timestamp]
\* asdict(message) as json.dump writes it: a JSON object, its keys in the
\* order of the dataclass fields.
MessageAsDict(m) ==
    <<<<"text", m.text>>, <<"role", m.role>>, <<"timestamp", m.timestamp>>>>
\* data[key] of a JSON object.
GetItem(data, key) == data[CHOOSE i \in DOMAIN data : data[i][1] = key][2]
\* Mutant of MessageFromDict: the timestamp is not read, the Message gets
\* the default one.
MessageFromDictStampsNow(data) ==
    Message3(GetItem(data, "role"), GetItem(data, "text"), "now")
\* Message.from_dict
MessageFromDict(data) ==
    Message3(GetItem(data, "role"), GetItem(data, "text"),
             GetItem(data, "timestamp"))
\* The "messages" of a thread file, back as Message objects.
MessagesFromDict(data) == [i \in DOMAIN data |-> MessageFromDict(data[i])]
\* The file json.dump(asdict(thread)) writes; its "id" is the file's name.
ThreadFile(title, msgs) ==
    [state |-> "ok", title |-> title,
     messages |-> [i \in DOMAIN msgs |-> MessageAsDict(msgs[i])]]
StoredFiles ==
    {AbsentFile, CorruptFile,
     ThreadFile(DEFAULT_THREAD_TITLE, <<>>),
     ThreadFile(DEFAULT_THREAD_TITLE,
                <<Message3("user", "u0", "ts0"), Message3("agent", "a0", "ts1")>>)}

\* No core3 invocation is running.
Core3Idle ==
    /\ store = [t \in ThreadIds |-> AbsentFile]
    /\ store0 = store
    /\ thread_id = "t1"
    /\ user_message = Message3("user", "u1", "ts2")
    /\ pc3 = "idle"
    /\ thread = <<>>
    /\ responses = <<>>
    /\ next_response = 1
    /\ events = <<>>
    /\ infer_calls = 0
    /\ save_calls = 0
    /\ error3 = <<>>

\* No streaming invocation is running.
AgentIdle ==
    /\ pc = "idle"
    /\ frames = <<>>
    /\ messages = <<>>
    /\ _messages = <<>>
    /\ response_text = <<>>
    /\ prev_tool_request = <<>>
    /\ tool_requests = <<>>
    /\ is_reasoning = FALSE
    /\ chunks = <<>>
    /\ consumed = 0
    /\ yielded = <<>>
    /\ emitted = <<>>
    /\ retval = <<>>
    /\ error = <<>>

\* No caller is using the store functions.
StoreIdle ==
    /\ held = <<>>
    /\ loaded_file = AbsentFile
    /\ appended = <<>>
    /\ last_op = [name |-> "none", id |-> "t1", error |-> <<>>, before |-> store]
    /\ op_count = 0

\* No websocket connection has been made.
ServerIdle ==
    /\ pcs = "idle"
    /\ connected = FALSE
    /\ channel = "open"
    /\ packet = "valid"
    /\ state = <<>>
    /\ fetched = <<>>
    /\ send_calls = 0
    /\ sent = <<>>
    /\ send_failed = FALSE
    /\ agent_pc = "unstarted"
    /\ engine_pc = "unstarted"
    /\ response_stream = "unopened"
    /\ read_chunks = 0

\* No two invocations are running at once.
ParIdle ==
    /\ par_id = <<>>
    /\ par_pc = <<>>
    /\ par_thread = <<>>
    /\ par_context = <<>>
    /\ par_responses = <<>>

\* ----------------------------------------------------------------- DataBase
\* A path is the sequence of its components from the root of the file system.
\* self._table_path, and a directory that is not the table's.
TablePath == <<"database", "threads">>
WorkDir == <<"app">>
Cwds == {TablePath, WorkDir}
\* Entry names: a plain name and an absolute path.
EntryNames ==
    {[absolute |-> FALSE, parts |-> <<"e1">>],
     [absolute |-> TRUE, parts |-> <<"tmp", "e2">>]}
Contents == {"c1", "c2"}
NoFile == "<no file>"
\* os.path.join(dir, name): an absolute name discards dir. It is also how
\* the operating system resolves a name against the working directory.
PathJoin(dir, name) == IF name.absolute THEN name.parts ELSE dir \o name.parts
Paths == {PathJoin(dir, name) : dir \in Cwds, name \in EntryNames}

\* No DataBase method has been called; the table directory is empty.
DbIdle ==
    /\ disk = [path \in Paths |-> NoFile]
    /\ cwd = TablePath
    /\ db_last =
         [op |-> "none", name |-> CHOOSE name \in EntryNames : TRUE,
          content |-> "c1", error |-> <<>>, result |-> <<>>]
    /\ db_count = 0

\* infer_stream has not been called.
IeIdle ==
    /\ deltas = <<>>
    /\ ie_pc = "unstarted"
    /\ ie_read = 0
    /\ ie_yielded = <<>>

\* ------------------------------------------------------------- ToolExecutor
\* Tool objects: tool.name is func.__name__, so two functions of the same
\* name give two Tool objects of the same name.
Tool(name, func) == [name |-> name, func |-> func]
ToolObjects ==
    {Tool("calculator", "f1"), Tool("calculator", "f2"),
     Tool("time_utils", "f3")}
ToolNames == {tool.name : tool \in ToolObjects}
\* _lookup.get(name) of a name that is not a key.
NoTool == Tool("", "")

\* A ToolExecutor() constructed without tools.
ToolsIdle ==
    /\ _tools = <<>>
    /\ _lookup = [name \in ToolNames |-> NoTool]
    /\ tool_ops = 0

\* No ChatContextManager has been constructed.
CtxIdle ==
    /\ max_messages_arg = 0
    /\ max_messages = 0
    /\ chat_history = <<>>
    /\ ctx_added = <<>>
    /\ ctx_ops = 0

\* ------------------------------------------------- Agent._process_tool_chunks
ToolRequest(i, n, a) == [id |-> i, name |-> n, arguments |-> a]

\* Mutant of ProcessToolChunks: a continuation overwrites the arguments
\* accumulated so far instead of appending to them.
ProcessToolChunksOverwrite(chunk, prev, reqs) ==
    IF prev = <<>>
    THEN IF chunk.id = NoId \/ chunk.name = NoName
         THEN [error |-> <<"ValueError: Invalid Tool Call Shape: ", chunk.id, chunk.name,
                          chunk.arguments>>,
               prev |-> prev, reqs |-> reqs]
         ELSE [error |-> <<>>,
               prev |-> <<ToolRequest(chunk.id, chunk.name, <<chunk.arguments>>)>>,
               reqs |-> reqs]
    ELSE IF chunk.id # NoId /\ prev[1].id # chunk.id
         THEN IF chunk.name = NoName
              THEN [error |-> <<"KeyError: name">>,
                    prev |-> prev, reqs |-> Append(reqs, prev[1])]
              ELSE [error |-> <<>>,
                    prev |-> <<ToolRequest(chunk.id, chunk.name, <<chunk.arguments>>)>>,
                    reqs |-> Append(reqs, prev[1])]
         ELSE [error |-> <<>>,
               prev |-> <<[prev[1] EXCEPT !.arguments = <<chunk.arguments>>]>>,
               reqs |-> reqs]

\* Mutant of ProcessToolChunks: a first fragment without id or name is
\* adopted as the current call instead of being rejected.
ProcessToolChunksAdoptsIdless(chunk, prev, reqs) ==
    IF prev = <<>>
    THEN [error |-> <<>>,
          prev |-> <<ToolRequest(chunk.id, chunk.name, <<chunk.arguments>>)>>,
          reqs |-> reqs]
    ELSE IF chunk.id # NoId /\ prev[1].id # chunk.id
         THEN IF chunk.name = NoName
              THEN [error |-> <<"KeyError: name">>,
                    prev |-> prev, reqs |-> Append(reqs, prev[1])]
              ELSE [error |-> <<>>,
                    prev |-> <<ToolRequest(chunk.id, chunk.name, <<chunk.arguments>>)>>,
                    reqs |-> Append(reqs, prev[1])]
         ELSE [error |-> <<>>,
               prev |-> <<[prev[1] EXCEPT !.arguments = @ \o <<chunk.arguments>>]>>,
               reqs |-> reqs]

\* Mutant of ProcessToolChunks: a finished request is put at the front of
\* the list.
ProcessToolChunksPrepends(chunk, prev, reqs) ==
    IF prev = <<>>
    THEN IF chunk.id = NoId \/ chunk.name = NoName
         THEN [error |-> <<"ValueError: Invalid Tool Call Shape: ", chunk.id, chunk.name,
                          chunk.arguments>>,
               prev |-> prev, reqs |-> reqs]
         ELSE [error |-> <<>>,
               prev |-> <<ToolRequest(chunk.id, chunk.name, <<chunk.arguments>>)>>,
               reqs |-> reqs]
    ELSE IF chunk.id # NoId /\ prev[1].id # chunk.id
         THEN IF chunk.name = NoName
              THEN [error |-> <<"KeyError: name">>,
                    prev |-> prev, reqs |-> <<prev[1]>> \o reqs]
              ELSE [error |-> <<>>,
                    prev |-> <<ToolRequest(chunk.id, chunk.name, <<chunk.arguments>>)>>,
                    reqs |-> <<prev[1]>> \o reqs]
         ELSE [error |-> <<>>,
               prev |-> <<[prev[1] EXCEPT !.arguments = @ \o <<chunk.arguments>>]>>,
               reqs |-> reqs]

\* The result of one call: the request the caller stores in prev_tool_request
\* (a one-element sequence), the tool_requests list after the call, and the
\* exception that left the call (<<>> if none).
ProcessToolChunks(chunk, prev, reqs) ==
    IF prev = <<>>
    THEN IF chunk.id = NoId \/ chunk.name = NoName
         THEN [error |-> <<"ValueError: Invalid Tool Call Shape: ", chunk.id, chunk.name,
                          chunk.arguments>>,
               prev |-> prev, reqs |-> reqs]
         ELSE [error |-> <<>>,
               prev |-> <<ToolRequest(chunk.id, chunk.name, <<chunk.arguments>>)>>,
               reqs |-> reqs]
    ELSE IF chunk.id # NoId /\ prev[1].id # chunk.id
         THEN IF chunk.name = NoName
              THEN [error |-> <<"KeyError: name">>,
                    prev |-> prev, reqs |-> Append(reqs, prev[1])]
              ELSE [error |-> <<>>,
                    prev |-> <<ToolRequest(chunk.id, chunk.name, <<chunk.arguments>>)>>,
                    reqs |-> Append(reqs, prev[1])]
         ELSE [error |-> <<>>,
               prev |-> <<[prev[1] EXCEPT !.arguments = @ \o <<chunk.arguments>>]>>,
               reqs |-> reqs]

\* ---------------------------------------------- Agent._process_reasoning_chunks
\* Mutant of ProcessReasoningChunks: every reasoning token gets the marker.
ProcessReasoningChunksAlwaysMarks(chunk, reasoning) ==
    <<<<ReasoningOpen, chunk.reasoning_content>>, TRUE>>

\* Returns <<token, is_reasoning>>.
ProcessReasoningChunks(chunk, reasoning) ==
    IF ~reasoning
    THEN <<<<ReasoningOpen, chunk.reasoning_content>>, TRUE>>
    ELSE <<<<chunk.reasoning_content>>, reasoning>>

\* ------------------------------------------------- Agent._handle_content_chunks
\* Mutant of HandleContentChunks: the token that closes the reasoning carries
\* the marker only and drops the delta.
HandleContentChunksMarkerOnly(chunk, reasoning) ==
    IF reasoning
    THEN <<<<ReasoningClose>>, FALSE>>
    ELSE <<<<chunk.content>>, reasoning>>

HandleContentChunks(chunk, reasoning) ==
    IF reasoning
    THEN <<<<ReasoningClose, chunk.content>>, FALSE>>
    ELSE <<<<chunk.content>>, reasoning>>

\* Mutant of Forwarded: the outer invocation keeps the last token only
\* (`=` for `+=`).
ForwardedOverwrites(fs, token) ==
    [k \in DOMAIN fs |-> [fs[k] EXCEPT !.response_text = token]]

\* Every suspended outer invocation adds a forwarded token to its own buffer.
Forwarded(fs, token) ==
    [k \in DOMAIN fs |-> [fs[k] EXCEPT !.response_text = @ \o token]]

\* Mutant of YieldToken: only content tokens enter the response buffer.
YieldTokenBuffersContent(token, kind) ==
    /\ response_text' = IF kind = "content" THEN response_text \o token ELSE response_text
    /\ frames' = Forwarded(frames, token)
    /\ yielded' = Append(yielded, token)
    /\ emitted' = Append(emitted, [token |-> token, kind |-> kind])

\* A token leaves the innermost generator: the innermost invoke buffers and
\* yields it, every outer invoke buffers and re-yields it.
YieldToken(token, kind) ==
    /\ response_text' = response_text \o token
    /\ frames' = Forwarded(frames, token)
    /\ yielded' = Append(yielded, token)
    /\ emitted' = Append(emitted, [token |-> token, kind |-> kind])

\* ------------------------------------------------------------- Agent.invoke
Init ==
    /\ pc = "called"
    /\ frames = <<>>
    /\ messages \in InputMessageLists
    /\ _messages = <<>>
    /\ response_text = <<>>
    /\ prev_tool_request = <<>>
    /\ tool_requests = <<>>
    /\ is_reasoning = FALSE
    /\ chunks = <<>>
    /\ consumed = 0
    /\ yielded = <<>>
    /\ emitted = <<>>
    /\ retval = <<>>
    /\ error = <<>>
    /\ Core3Idle
    /\ StoreIdle
    /\ DbIdle
    /\ IeIdle
    /\ ToolsIdle
    /\ CtxIdle
    /\ ServerIdle
    /\ ParIdle

\* The initial state of one turn: the locals of invoke and of _process_stream.
OpenStream ==
    /\ response_text' = <<>>
    /\ prev_tool_request' = <<>>
    /\ tool_requests' = <<>>
    /\ is_reasoning' = FALSE
    /\ chunks' = <<>>
    /\ emitted' = <<>>

\* Mutant of InvokeEmpty: the system prompt is inserted before the guard.
InvokeEmptyInsertsPrompt ==
    /\ pc = "called"
    /\ messages = <<>>
    /\ messages' = <<SystemPrompt>>
    /\ pc' = "raised"
    /\ error' = <<"ValueError: Message list cannot be empty.">>
    /\ UNCHANGED <<frames, _messages, response_text, prev_tool_request,
                   tool_requests, is_reasoning, chunks, consumed,
                   yielded, emitted, retval>>
    /\ UNCHANGED outside_agent

\* First next() on the generator: the guard, the copy, the system prompt.
InvokeEmpty ==
    /\ pc = "called"
    /\ messages = <<>>
    /\ pc' = "raised"
    /\ error' = <<"ValueError: Message list cannot be empty.">>
    /\ UNCHANGED <<frames, messages, _messages, response_text, prev_tool_request,
                   tool_requests, is_reasoning, chunks, consumed,
                   yielded, emitted, retval>>
    /\ UNCHANGED outside_agent

InvokeStart ==
    /\ pc = "called"
    /\ messages # <<>>
    /\ _messages' = messages
    /\ messages' = <<SystemPrompt>> \o messages
    /\ OpenStream
    /\ pc' = "streaming"
    /\ UNCHANGED <<frames, consumed, yielded, retval, error>>
    /\ UNCHANGED outside_agent

\* inference.chat raises (raise_for_status, a frame that is not JSON).
ChatRaises ==
    /\ pc = "streaming"
    /\ pc' = "raised"
    /\ error' = <<"HTTPError">>
    /\ UNCHANGED <<frames, messages, _messages, response_text, prev_tool_request,
                   tool_requests, is_reasoning, chunks, consumed, yielded,
                   emitted, retval>>
    /\ UNCHANGED outside_agent

\* Mutant of EndOfStream: the call in progress is not flushed.
EndOfStreamDropsCurrent ==
    /\ tool_requests' = tool_requests
    /\ frames' = Forwarded(frames, <<NewLine>>)
    /\ yielded' = Append(yielded, <<NewLine>>)
    /\ pc' = "decide"

\* The end of _process_stream (the flush) and invoke's `yield "\n"`.
EndOfStream ==
    /\ tool_requests' = tool_requests \o prev_tool_request
    /\ frames' = Forwarded(frames, <<NewLine>>)
    /\ yielded' = Append(yielded, <<NewLine>>)
    /\ pc' = "decide"

\* One iteration of `for chunk in stream` on a tool-call fragment.
StreamToolChunk(chunk) ==
    LET r == ProcessToolChunks(chunk, prev_tool_request, tool_requests) IN
    /\ pc = "streaming"
    /\ consumed < MaxChunks
    /\ ~DeltaIsEmpty(chunk)
    /\ chunk.has_tool_calls
    /\ chunks' = Append(chunks, chunk)
    /\ consumed' = consumed + 1
    /\ prev_tool_request' = r.prev
    /\ tool_requests' = r.reqs
    /\ error' = r.error
    /\ pc' = IF r.error = <<>> THEN "streaming" ELSE "raised"
    /\ UNCHANGED <<frames, messages, _messages, response_text, is_reasoning,
                   yielded, emitted, retval>>
    /\ UNCHANGED outside_agent

\* One iteration on a fragment with content and no tool_calls.
StreamContentChunk(chunk) ==
    LET r == HandleContentChunks(chunk, is_reasoning) IN
    /\ pc = "streaming"
    /\ consumed < MaxChunks
    /\ ~chunk.has_tool_calls
    /\ chunk.has_content
    /\ chunks' = Append(chunks, chunk)
    /\ consumed' = consumed + 1
    /\ is_reasoning' = r[2]
    /\ YieldToken(r[1], "content")
    /\ UNCHANGED <<pc, messages, _messages, prev_tool_request, tool_requests,
                   retval, error>>
    /\ UNCHANGED outside_agent

\* One iteration on a fragment with reasoning_content and neither of the others.
StreamReasoningChunk(chunk) ==
    LET r == ProcessReasoningChunks(chunk, is_reasoning) IN
    /\ pc = "streaming"
    /\ consumed < MaxChunks
    /\ ~chunk.has_tool_calls
    /\ ~chunk.has_content
    /\ chunk.has_reasoning
    /\ chunks' = Append(chunks, chunk)
    /\ consumed' = consumed + 1
    /\ is_reasoning' = r[2]
    /\ YieldToken(r[1], "reasoning")
    /\ UNCHANGED <<pc, messages, _messages, prev_tool_request, tool_requests,
                   retval, error>>
    /\ UNCHANGED outside_agent

\* Mutant of StreamUnknownChunk: the fragment is skipped and the loop goes on.
StreamUnknownChunkSkips(chunk) ==
    /\ pc = "streaming"
    /\ consumed < MaxChunks
    /\ ~DeltaIsEmpty(chunk)
    /\ ~chunk.has_tool_calls
    /\ ~chunk.has_content
    /\ ~chunk.has_reasoning
    /\ chunks' = Append(chunks, chunk)
    /\ consumed' = consumed + 1
    /\ UNCHANGED <<pc, error, frames, messages, _messages, response_text,
                   prev_tool_request, tool_requests, is_reasoning, yielded,
                   emitted, retval>>
    /\ UNCHANGED outside_agent

\* One iteration on a non-empty delta with no recognised field.
StreamUnknownChunk(chunk) ==
    /\ pc = "streaming"
    /\ consumed < MaxChunks
    /\ ~DeltaIsEmpty(chunk)
    /\ ~chunk.has_tool_calls
    /\ ~chunk.has_content
    /\ ~chunk.has_reasoning
    /\ chunks' = Append(chunks, chunk)
    /\ consumed' = consumed + 1
    /\ pc' = "raised"
    /\ error' = <<"ValueError: Unexpected chunk format. ", chunk>>
    /\ UNCHANGED <<frames, messages, _messages, response_text, prev_tool_request,
                   tool_requests, is_reasoning, yielded, emitted, retval>>
    /\ UNCHANGED outside_agent

\* The empty delta: `break`.
StreamEmptyChunk(chunk) ==
    /\ pc = "streaming"
    /\ consumed < MaxChunks
    /\ DeltaIsEmpty(chunk)
    /\ chunks' = Append(chunks, chunk)
    /\ consumed' = consumed + 1
    /\ EndOfStream
    /\ UNCHANGED <<messages, _messages, response_text, prev_tool_request,
                   is_reasoning, emitted, retval, error>>
    /\ UNCHANGED outside_agent

\* The backend stream is exhausted ([DONE], or no more frames).
StreamExhausted ==
    /\ pc = "streaming"
    /\ EndOfStream
    /\ UNCHANGED <<messages, _messages, response_text, prev_tool_request,
                   is_reasoning, chunks, consumed, emitted, retval, error>>
    /\ UNCHANGED outside_agent

\* `if not tool_requests: return Message(role="assistant", content=response_text)`
ReturnResponse ==
    /\ pc = "decide"
    /\ tool_requests = <<>>
    /\ retval' = <<Message("assistant", response_text, <<>>, NoId)>>
    /\ pc' = "returning"
    /\ UNCHANGED <<frames, messages, _messages, response_text, prev_tool_request,
                   tool_requests, is_reasoning, chunks, consumed,
                   yielded, emitted, error>>
    /\ UNCHANGED outside_agent

\* ------------------------------------------------- Agent._yield_tool_requests
ToolCall(req) ==
    [id |-> req.id, type |-> "function",
     function |-> [name |-> req.name, arguments |-> req.arguments]]

\* req_msg: the assistant message that carries the calls, content "".
RequestMessage(reqs) ==
    Message("assistant", <<>>, [k \in DOMAIN reqs |-> ToolCall(reqs[k])], NoId)

\* json.dumps of the tool_calls list, as text atoms.
JsonDumps(calls) ==
    Concat([k \in DOMAIN calls |->
        <<calls[k].id, calls[k].function.name>> \o calls[k].function.arguments])

ToolCallToken(reqs) ==
    <<ToolCallOpen>> \o JsonDumps(RequestMessage(reqs).tool_calls) \o <<ToolCallClose>>

\* ------------------------------------------------------ json.loads(arguments)
\* Of the texts the argument fragments can form, only {"a":1}, {} and the
\* two whole objects are JSON.
JsonValid(arguments) ==
    \/ arguments = <<ArgOpen, ArgClose>>
    \/ arguments = <<ArgWhole>>
    \/ arguments = <<ArgAdd>>
    \/ arguments = <<ArgDivide>>

\* ---------------------------------------------------------------- calculator
\* tool(**arguments): the result, or the text of the exception it raises.
\* calculator(a=1) and calculator() lack required arguments (TypeError).
calculator(arguments) ==
    IF arguments = <<ArgAdd>>
    THEN [raised |-> FALSE, text |-> "2"]
    ELSE IF arguments = <<ArgDivide>>
         THEN [raised |-> TRUE, text |-> "Cannot divide by zero."]
         ELSE [raised |-> TRUE, text |-> "calculator() missing required positional arguments"]

\* -------------------------------------------------- ToolExecutor.execute_tool
\* Mutant of ExecuteTool: an unknown name is answered with an error string
\* instead of an exception.
ExecuteToolReportsUnknown(tool_name, arguments) ==
    IF tool_name \notin RegisteredTools
    THEN [error |-> <<>>, content |-> <<"Tool '", tool_name, "' not found.">>]
    ELSE LET result == calculator(arguments) IN
         IF result.raised
         THEN [error |-> <<>>,
               content |-> <<"Error executing tool '", tool_name, "': ", result.text>>]
         ELSE [error |-> <<>>, content |-> <<result.text>>]

\* Mutant of ExecuteTool: the exception of the tool leaves execute_tool.
ExecuteToolPropagates(tool_name, arguments) ==
    IF tool_name \notin RegisteredTools
    THEN [error |-> <<"ValueError: Tool '", tool_name, "' not found.">>, content |-> <<>>]
    ELSE LET result == calculator(arguments) IN
         IF result.raised
         THEN [error |-> <<result.text>>, content |-> <<>>]
         ELSE [error |-> <<>>, content |-> <<result.text>>]

\* [error, content]: error is the exception that leaves execute_tool, <<>> if
\* none; content is the string it returns.
ExecuteTool(tool_name, arguments) ==
    IF tool_name \notin RegisteredTools
    THEN [error |-> <<"ValueError: Tool '", tool_name, "' not found.">>, content |-> <<>>]
    ELSE LET result == calculator(arguments) IN
         IF result.raised
         THEN [error |-> <<>>,
               content |-> <<"Error executing tool '", tool_name, "': ", result.text>>]
         ELSE [error |-> <<>>, content |-> <<result.text>>]

\* ------------------------------------------------ Agent._handle_tool_requests
ToolResponse(i, n, c) == [id |-> i, name |-> n, content |-> c]

\* The loop over the requests, from request k on, with the tool_responses so far.
RECURSIVE HandleFrom(_, _, _)
HandleFrom(reqs, k, tool_responses) ==
    IF k > Len(reqs)
    THEN [error |-> <<>>, tool_responses |-> tool_responses]
    ELSE IF ~JsonValid(reqs[k].arguments)
         THEN [error |-> <<"JSONDecodeError">>, tool_responses |-> tool_responses]
         ELSE LET r == ExecuteTool(reqs[k].name, reqs[k].arguments) IN
              IF r.error # <<>>
              THEN [error |-> r.error, tool_responses |-> tool_responses]
              ELSE HandleFrom(reqs, k + 1,
                       Append(tool_responses,
                              ToolResponse(reqs[k].id, reqs[k].name, r.content)))

HandleToolRequests(reqs) == HandleFrom(reqs, 1, <<>>)

\* Mutant of ResponseMessages: the tool messages come out in reverse order.
ResponseMessagesReversed(tool_responses) ==
    [k \in DOMAIN tool_responses |->
        Message("tool", tool_responses[Len(tool_responses) + 1 - k].content, <<>>,
                tool_responses[Len(tool_responses) + 1 - k].id)]

\* response_messages: one tool-role message per response.
ResponseMessages(tool_responses) ==
    [k \in DOMAIN tool_responses |->
        Message("tool", tool_responses[k].content, <<>>, tool_responses[k].id)]

\* followup_messages
FollowupMessages(context, reqs, tool_responses) ==
    context \o <<RequestMessage(reqs)>> \o ResponseMessages(tool_responses)

\* `request_message = yield from self._yield_tool_requests(tool_requests)`
YieldToolRequests ==
    /\ pc = "decide"
    /\ tool_requests # <<>>
    /\ frames' = Forwarded(frames, ToolCallToken(tool_requests))
    /\ yielded' = Append(yielded, ToolCallToken(tool_requests))
    /\ pc' = "tools"
    /\ UNCHANGED <<messages, _messages, response_text, prev_tool_request,
                   tool_requests, is_reasoning, chunks, consumed,
                   emitted, retval, error>>
    /\ UNCHANGED outside_agent

\* A tool request fails to decode or names no tool: the exception leaves invoke.
ToolRequestsRaise ==
    /\ pc = "tools"
    /\ HandleToolRequests(tool_requests).error # <<>>
    /\ pc' = "raised"
    /\ error' = HandleToolRequests(tool_requests).error
    /\ UNCHANGED <<frames, messages, _messages, response_text, prev_tool_request,
                   tool_requests, is_reasoning, chunks, consumed,
                   yielded, emitted, retval>>
    /\ UNCHANGED outside_agent

\* Mutant of Recurse: the continuation depth is bounded; at the bound the
\* turn returns its text although it asked for tools.
RecurseBounded ==
    LET r == HandleToolRequests(tool_requests)
        followup == FollowupMessages(_messages, tool_requests, r.tool_responses)
    IN  /\ pc = "tools"
        /\ r.error = <<>>
        /\ IF Len(frames) + 1 < MaxDepth
           THEN /\ frames' = Append(frames,
                       [messages |-> messages, _messages |-> _messages,
                        tool_requests |-> tool_requests, response_text |-> <<>>])
                /\ _messages' = followup
                /\ messages' = <<SystemPrompt>> \o followup
                /\ OpenStream
                /\ pc' = "streaming"
                /\ UNCHANGED retval
           ELSE /\ retval' = <<Message("assistant", response_text, <<>>, NoId)>>
                /\ pc' = "returning"
                /\ UNCHANGED <<frames, messages, _messages, response_text,
                               prev_tool_request, tool_requests, is_reasoning,
                               chunks, emitted>>
        /\ UNCHANGED <<consumed, yielded, error>>
        /\ UNCHANGED outside_agent

\* The tools ran: build the follow-up context and start the inner invoke on it
\* (its guard passes, it copies the list and inserts the system prompt).
Recurse ==
    LET r == HandleToolRequests(tool_requests)
        followup == FollowupMessages(_messages, tool_requests, r.tool_responses)
    IN  /\ pc = "tools"
        /\ r.error = <<>>
        /\ Len(frames) + 1 < MaxDepth
        /\ frames' = Append(frames,
               [messages |-> messages, _messages |-> _messages,
                tool_requests |-> tool_requests, response_text |-> <<>>])
        /\ _messages' = followup
        /\ messages' = <<SystemPrompt>> \o followup
        /\ OpenStream
        /\ pc' = "streaming"
        /\ UNCHANGED <<consumed, yielded, retval, error>>
        /\ UNCHANGED outside_agent

\* StopIteration of the inner invoke reaches the outer one: it yields "\n"
\* and returns the inner Message as its own.
ReturnToOuter ==
    LET outer == frames[Len(frames)]
        rest == SubSeq(frames, 1, Len(frames) - 1)
    IN  /\ pc = "returning"
        /\ frames # <<>>
        /\ frames' = Forwarded(rest, <<NewLine>>)
        /\ yielded' = Append(yielded, <<NewLine>>)
        /\ messages' = outer.messages
        /\ _messages' = outer._messages
        /\ tool_requests' = outer.tool_requests
        /\ response_text' = outer.response_text
        /\ UNCHANGED <<pc, prev_tool_request, is_reasoning, chunks,
                       consumed, emitted, retval, error>>
        /\ UNCHANGED outside_agent

\* StopIteration reaches the top-level caller.
ReturnToCaller ==
    /\ pc = "returning"
    /\ frames = <<>>
    /\ pc' = "returned"
    /\ UNCHANGED <<frames, messages, _messages, response_text, prev_tool_request,
                   tool_requests, is_reasoning, chunks, consumed,
                   yielded, emitted, retval, error>>
    /\ UNCHANGED outside_agent

\* ======================================================================
\* altron_core/core3/agent.py over the thread store
\* ======================================================================
\* More responses than one need an engine that returns several choices.
MaxResponses == 2

\* ------------------------------------------------------------- load_thread
\* Mutant of LoadThread: a missing file is read as a new, empty thread.
LoadThreadCreatesMissing(files, tid) ==
    IF files[tid].state = "absent"
    THEN [error |-> <<>>,
          thread |-> <<[id |-> tid, title |-> DEFAULT_THREAD_TITLE, messages |-> <<>>]>>]
    ELSE IF files[tid].state = "corrupt"
    THEN [error |-> <<"Thread with ID ", tid, " is not a valid JSON file.">>,
          thread |-> <<>>]
    ELSE [error |-> <<>>,
          thread |-> <<[id |-> tid, title |-> files[tid].title,
                        messages |-> MessagesFromDict(files[tid].messages)]>>]

\* [error, thread]: error is <<>> when the MessageThread is returned.
LoadThread(files, tid) ==
    IF files[tid].state = "absent"
    THEN [error |-> <<"Thread with ID ", tid, " does not exist.">>, thread |-> <<>>]
    ELSE IF files[tid].state = "corrupt"
    THEN [error |-> <<"Thread with ID ", tid, " is not a valid JSON file.">>,
          thread |-> <<>>]
    ELSE [error |-> <<>>,
          thread |-> <<[id |-> tid, title |-> files[tid].title,
                        messages |-> MessagesFromDict(files[tid].messages)]>>]

\* ------------------------------------------------------------- save_thread
\* What the file system does to open(path, "w") and json.dump.
SaveOutcomes == {"written", "no_directory", "open_failed", "dump_failed"}

\* Mutant of SaveThread: the write keeps the messages already in the file
\* and adds only the last message of the thread.
SaveThreadAppendsLast(files, t, outcome) ==
    IF outcome = "written"
    THEN [error |-> <<>>,
          files |-> [files EXCEPT ![t.id] =
              ThreadFile(t.title,
                  Append(MessagesFromDict(files[t.id].messages),
                         t.messages[Len(t.messages)]))]]
    ELSE IF outcome = "no_directory"
    THEN [error |-> <<"Thread with ID ", t.id, " does not exist.">>, files |-> files]
    ELSE IF outcome = "open_failed"
    THEN [error |-> <<"Failed to save thread file for ID ", t.id>>, files |-> files]
    ELSE [error |-> <<"Failed to save thread file for ID ", t.id>>,
          files |-> [files EXCEPT ![t.id] = CorruptFile]]

\* [error, files]: open(path, "w") creates or truncates the file; a failure
\* of the dump leaves the truncated file behind.
SaveThread(files, t, outcome) ==
    IF outcome = "written"
    THEN [error |-> <<>>,
          files |-> [files EXCEPT ![t.id] = ThreadFile(t.title, t.messages)]]
    ELSE IF outcome = "no_directory"
    THEN [error |-> <<"Thread with ID ", t.id, " does not exist.">>, files |-> files]
    ELSE IF outcome = "open_failed"
    THEN [error |-> <<"Failed to save thread file for ID ", t.id>>, files |-> files]
    ELSE [error |-> <<"Failed to save thread file for ID ", t.id>>,
          files |-> [files EXCEPT ![t.id] = CorruptFile]]

\* ------------------------------------------------------------- StatePacket
StatePacket(prev, next, err, text) ==
    [prev_state |-> prev, next_state |-> next, error |-> err, message |-> text]

\* What InferenceEngine.infer can return: one agent Message per choice.
AgentTexts == {"a1", EMPTY_MESSAGE_TEXT}
ResponseLists ==
    UNION {[1..n -> {Message3("agent", x, "ts3") : x \in AgentTexts}] : n \in 0..MaxResponses}

\* ------------------------------------------------------- core3 Agent.invoke
Init3 ==
    /\ pc = "idle"
    /\ frames = <<>>
    /\ messages = <<>>
    /\ _messages = <<>>
    /\ response_text = <<>>
    /\ prev_tool_request = <<>>
    /\ tool_requests = <<>>
    /\ is_reasoning = FALSE
    /\ chunks = <<>>
    /\ consumed = 0
    /\ yielded = <<>>
    /\ emitted = <<>>
    /\ retval = <<>>
    /\ error = <<>>
    /\ store \in [ThreadIds -> StoredFiles]
    /\ store0 = store
    /\ thread_id \in ThreadIds
    /\ user_message \in {Message3("user", "u1", "ts2"), Message3("user", "u2", "ts2")}
    /\ pc3 = "start"
    /\ thread = <<>>
    /\ responses = <<>>
    /\ next_response = 1
    /\ events = <<>>
    /\ infer_calls = 0
    /\ save_calls = 0
    /\ error3 = <<>>
    /\ StoreIdle
    /\ DbIdle
    /\ IeIdle
    /\ ToolsIdle
    /\ CtxIdle
    /\ ServerIdle
    /\ ParIdle

\* Perceive, load_thread raises: the failed packet is yielded in the handler.
PerceiveLoadFails ==
    LET r == LoadThread(store, thread_id) IN
    /\ pc3 = "start"
    /\ r.error # <<>>
    /\ events' = Append(events, StatePacket("failed", "perceiving", r.error, ""))
    /\ error3' = r.error
    /\ pc3' = "load_failed"
    /\ UNCHANGED <<store, store0, thread_id, user_message, thread, responses,
                   next_response, infer_calls, save_calls>>
    /\ UNCHANGED outside_core3

\* `raise e` after the failed packet of the load was consumed.
ReraiseLoadError ==
    /\ pc3 = "load_failed"
    /\ pc3' = "raised"
    /\ UNCHANGED <<store, store0, thread_id, user_message, thread, responses,
                   next_response, events, infer_calls, save_calls, error3>>
    /\ UNCHANGED outside_core3

\* Perceive: the thread is loaded, the user message appended, the packet yielded.
Perceive ==
    LET r == LoadThread(store, thread_id) IN
    /\ pc3 = "start"
    /\ r.error = <<>>
    /\ thread' = <<[r.thread[1] EXCEPT !.messages = Append(@, user_message)]>>
    /\ events' = Append(events, StatePacket("perceiving", "thinking", <<>>, ""))
    /\ pc3' = "perceived"
    /\ UNCHANGED <<store, store0, thread_id, user_message, responses,
                   next_response, infer_calls, save_calls, error3>>
    /\ UNCHANGED outside_core3

\* Think: engine.infer returns; the thinking packet is yielded.
Think(rs) ==
    /\ pc3 = "perceived"
    /\ infer_calls' = infer_calls + 1
    /\ responses' = rs
    /\ next_response' = 1
    /\ events' = Append(events, StatePacket("thinking", "responding", <<>>, ""))
    /\ pc3' = "responding"
    /\ UNCHANGED <<store, store0, thread_id, user_message, thread, save_calls, error3>>
    /\ UNCHANGED outside_core3

\* Mutant of InferRaises: the thread is saved on the way out, as a
\* `finally: save_thread(thread)` would do.
InferRaisesSavesThread ==
    /\ pc3 = "perceived"
    /\ infer_calls' = infer_calls + 1
    /\ error3' = <<"inference failed">>
    /\ pc3' = "raised"
    /\ store' = SaveThread(store, thread[1], "written").files
    /\ UNCHANGED <<store0, thread_id, user_message, thread, responses,
                   next_response, events, save_calls>>
    /\ UNCHANGED outside_core3

\* Think: engine.infer raises; nothing catches it.
InferRaises ==
    /\ pc3 = "perceived"
    /\ infer_calls' = infer_calls + 1
    /\ error3' = <<"inference failed">>
    /\ pc3' = "raised"
    /\ UNCHANGED <<store, store0, thread_id, user_message, thread, responses,
                   next_response, events, save_calls>>
    /\ UNCHANGED outside_core3

\* Respond: one iteration of `for agent_message in responses`.
Respond ==
    /\ pc3 = "responding"
    /\ next_response <= Len(responses)
    /\ thread' = <<[thread[1] EXCEPT !.messages = Append(@, responses[next_response])]>>
    /\ events' = Append(events,
           StatePacket("responding", "perceiving", <<>>, responses[next_response].text))
    /\ next_response' = next_response + 1
    /\ UNCHANGED <<store, store0, thread_id, user_message, pc3, responses,
                   infer_calls, save_calls, error3>>
    /\ UNCHANGED outside_core3

\* The loop is over and save_thread succeeds: the generator ends.
SaveSucceeds ==
    LET r == SaveThread(store, thread[1], "written") IN
    /\ pc3 = "responding"
    /\ next_response > Len(responses)
    /\ save_calls' = save_calls + 1
    /\ store' = r.files
    /\ pc3' = "returned"
    /\ UNCHANGED <<store0, thread_id, user_message, thread, responses,
                   next_response, events, infer_calls, error3>>
    /\ UNCHANGED outside_core3

\* The loop is over and save_thread raises: the failed packet is yielded.
SaveFails(outcome) ==
    LET r == SaveThread(store, thread[1], outcome) IN
    /\ pc3 = "responding"
    /\ next_response > Len(responses)
    /\ outcome # "written"
    /\ save_calls' = save_calls + 1
    /\ store' = r.files
    /\ events' = Append(events, StatePacket("failed", "perceiving", r.error, ""))
    /\ error3' = r.error
    /\ pc3' = "save_failed"
    /\ UNCHANGED <<store0, thread_id, user_message, thread, responses,
                   next_response, infer_calls>>
    /\ UNCHANGED outside_core3

\* `raise e` after the failed packet of the save was consumed.
ReraiseSaveError ==
    /\ pc3 = "save_failed"
    /\ pc3' = "raised"
    /\ UNCHANGED <<store, store0, thread_id, user_message, thread, responses,
                   next_response, events, infer_calls, save_calls, error3>>
    /\ UNCHANGED outside_core3

vars ==
    <<agent_vars, core3_vars, store_vars, server_vars, par_vars, db_vars,
      ie_vars, tool_vars, ctx_vars>>

Next ==
    \/ InvokeEmpty
    \/ InvokeStart
    \/ ChatRaises
    \/ \E chunk \in Fragments : StreamToolChunk(chunk)
    \/ \E chunk \in Fragments : StreamContentChunk(chunk)
    \/ \E chunk \in Fragments : StreamReasoningChunk(chunk)
    \/ \E chunk \in Fragments : StreamUnknownChunk(chunk)
    \/ \E chunk \in Fragments : StreamEmptyChunk(chunk)
    \/ StreamExhausted
    \/ ReturnResponse
    \/ YieldToolRequests
    \/ ToolRequestsRaise
    \/ Recurse
    \/ ReturnToOuter
    \/ ReturnToCaller

Spec == Init /\ [][Next]_vars

Next3 ==
    \/ PerceiveLoadFails
    \/ ReraiseLoadError
    \/ Perceive
    \/ \E rs \in ResponseLists : Think(rs)
    \/ InferRaises
    \/ Respond
    \/ SaveSucceeds
    \/ \E outcome \in SaveOutcomes : SaveFails(outcome)
    \/ ReraiseSaveError

Spec3 == Init3 /\ [][Next3]_vars

\* ======================================================================
\* The store functions of altron_core/core/threads.py, called one at a
\* time by a caller that keeps the MessageThread it was given
\* ======================================================================
MaxOps == 3
MaxAppended == 2
Titles == {DEFAULT_THREAD_TITLE, "Plans"}
\* What the file system does to open(path, "x") and json.dump.
CreateOutcomes == {"written", "open_failed", "dump_failed"}
\* What the file system does to os.remove.
RemoveOutcomes == {"removed", "remove_failed"}
\* The messages a caller appends to a thread it holds.
AppendedMessages == {Message3("user", "u1", "ts2"), Message3("agent", "a1", "ts3")}

\* Mutant of CreateThread: the file is opened for writing, not for
\* exclusive creation.
CreateThreadOverwrites(files, tid, title, outcome) ==
    IF outcome = "written"
    THEN [error |-> <<>>,
          files |-> [files EXCEPT ![tid] = ThreadFile(title, <<>>)],
          thread |-> <<[id |-> tid, title |-> title, messages |-> <<>>]>>]
    ELSE IF outcome = "open_failed"
    THEN [error |-> <<"Failed to create thread file for ID ", tid>>,
          files |-> files, thread |-> <<>>]
    ELSE [error |-> <<"Failed to create thread file for ID ", tid>>,
          files |-> [files EXCEPT ![tid] = CorruptFile], thread |-> <<>>]

\* ------------------------------------------------------------ create_thread
\* [error, files, thread]: tid is str(time_ns()); open(path, "x") refuses
\* a path that exists; a failure of the dump leaves the new file behind.
CreateThread(files, tid, title, outcome) ==
    IF files[tid].state # "absent"
    THEN [error |-> <<"Thread with ID ", tid, " already exists.">>,
          files |-> files, thread |-> <<>>]
    ELSE IF outcome = "written"
    THEN [error |-> <<>>,
          files |-> [files EXCEPT ![tid] = ThreadFile(title, <<>>)],
          thread |-> <<[id |-> tid, title |-> title, messages |-> <<>>]>>]
    ELSE IF outcome = "open_failed"
    THEN [error |-> <<"Failed to create thread file for ID ", tid>>,
          files |-> files, thread |-> <<>>]
    ELSE [error |-> <<"Failed to create thread file for ID ", tid>>,
          files |-> [files EXCEPT ![tid] = CorruptFile], thread |-> <<>>]

\* ------------------------------------------------------------ remove_thread
\* [error, files]
RemoveThread(files, tid, outcome) ==
    IF files[tid].state = "absent"
    THEN [error |-> <<"Thread with ID ", tid, " does not exist.">>, files |-> files]
    ELSE IF outcome = "removed"
    THEN [error |-> <<>>, files |-> [files EXCEPT ![tid] = AbsentFile]]
    ELSE [error |-> <<"Failed to delete thread file for ID ", tid>>, files |-> files]

\* --------------------------------------------------------------- the caller
StoreOp(name, tid, err) ==
    [name |-> name, id |-> tid, error |-> err, before |-> store]

InitStore ==
    /\ AgentIdle
    /\ store \in [ThreadIds -> StoredFiles]
    /\ store0 = store
    /\ thread_id = "t1"
    /\ user_message = Message3("user", "u1", "ts2")
    /\ pc3 = "idle"
    /\ thread = <<>>
    /\ responses = <<>>
    /\ next_response = 1
    /\ events = <<>>
    /\ infer_calls = 0
    /\ save_calls = 0
    /\ error3 = <<>>
    /\ StoreIdle
    /\ DbIdle
    /\ IeIdle
    /\ ToolsIdle
    /\ CtxIdle
    /\ ServerIdle
    /\ ParIdle

\* thread = create_thread(title)
CallCreateThread(tid, title, outcome) ==
    LET r == CreateThread(store, tid, title, outcome) IN
    /\ op_count < MaxOps
    /\ store' = r.files
    /\ last_op' = StoreOp("create", tid, r.error)
    /\ op_count' = op_count + 1
    /\ IF r.error = <<>>
       THEN /\ held' = r.thread
            /\ loaded_file' = r.files[tid]
            /\ appended' = <<>>
       ELSE UNCHANGED <<held, loaded_file, appended>>
    /\ UNCHANGED outside_store

\* thread = load_thread(thread_id)
CallLoadThread(tid) ==
    LET r == LoadThread(store, tid) IN
    /\ op_count < MaxOps
    /\ last_op' = StoreOp("load", tid, r.error)
    /\ op_count' = op_count + 1
    /\ IF r.error = <<>>
       THEN /\ held' = r.thread
            /\ loaded_file' = store[tid]
            /\ appended' = <<>>
       ELSE UNCHANGED <<held, loaded_file, appended>>
    /\ UNCHANGED store
    /\ UNCHANGED outside_store

\* thread.messages.append(message)
AppendMessage(message) ==
    /\ held # <<>>
    /\ Len(appended) < MaxAppended
    /\ held' = <<[held[1] EXCEPT !.messages = Append(@, message)]>>
    /\ appended' = Append(appended, message)
    /\ last_op' = StoreOp("append", held[1].id, <<>>)
    /\ UNCHANGED <<store, loaded_file, op_count>>
    /\ UNCHANGED outside_store

\* save_thread(thread)
CallSaveThread(outcome) ==
    LET r == SaveThread(store, held[1], outcome) IN
    /\ held # <<>>
    /\ op_count < MaxOps
    /\ store' = r.files
    /\ last_op' = StoreOp("save", held[1].id, r.error)
    /\ op_count' = op_count + 1
    /\ UNCHANGED <<held, loaded_file, appended>>
    /\ UNCHANGED outside_store

\* remove_thread(thread_id)
CallRemoveThread(tid, outcome) ==
    LET r == RemoveThread(store, tid, outcome) IN
    /\ op_count < MaxOps
    /\ store' = r.files
    /\ last_op' = StoreOp("remove", tid, r.error)
    /\ op_count' = op_count + 1
    /\ UNCHANGED <<held, loaded_file, appended>>
    /\ UNCHANGED outside_store

NextStore ==
    \/ \E tid \in ThreadIds, title \in Titles, outcome \in CreateOutcomes :
          CallCreateThread(tid, title, outcome)
    \/ \E tid \in ThreadIds : CallLoadThread(tid)
    \/ \E message \in AppendedMessages : AppendMessage(message)
    \/ \E outcome \in SaveOutcomes : CallSaveThread(outcome)
    \/ \E tid \in ThreadIds, outcome \in RemoveOutcomes :
          CallRemoveThread(tid, outcome)

SpecStore == InitStore /\ [][NextStore]_vars

\* ======================================================================
\* converse, the websocket handler of altron_core/server/server.py, over
\* an agent.invoke generator that reads LMStudio_IE.infer_stream of
\* altron_core/core/inference.py
\* ======================================================================
MaxStreamChunks == 2
\* What the client sends first: a ConversePacket, text that is not JSON,
\* JSON without the keys of a ConversePacket.
Packets == {"valid", "not_json", "no_message"}
\* curr_state of the events that carry one token of the backend stream.
TokenStates == {"thinking", "responding"}

InitServer ==
    /\ AgentIdle
    /\ Core3Idle
    /\ StoreIdle
    /\ DbIdle
    /\ IeIdle
    /\ ToolsIdle
    /\ CtxIdle
    /\ ParIdle
    /\ pcs = "accept"
    /\ connected = FALSE
    /\ channel = "open"
    /\ packet \in Packets
    /\ state = <<>>
    /\ fetched = <<>>
    /\ send_calls = 0
    /\ sent = <<>>
    /\ send_failed = FALSE
    /\ agent_pc = "unstarted"
    /\ engine_pc = "unstarted"
    /\ response_stream = "unopened"
    /\ read_chunks = 0

\* -------------------------------------------------- LMStudio_IE.infer_stream
\* The generator is asked for its next item.
InferStreamRuns == engine_pc \in {"unstarted", "yielded"}

\* A chunk with content or a thought is read and yielded; the first call
\* opens the backend stream.
InferStreamYields ==
    /\ InferStreamRuns
    /\ read_chunks < MaxStreamChunks
    /\ engine_pc' = "yielded"
    /\ response_stream' = "open"
    /\ read_chunks' = read_chunks + 1

\* The backend stream is exhausted, or an empty chunk breaks the loop:
\* response_stream.close(), then the None sentinel.
InferStreamEnds ==
    /\ InferStreamRuns
    /\ engine_pc' = "ended"
    /\ response_stream' = "closed"
    /\ UNCHANGED read_chunks

\* An exception leaves the generator: from the call that opens the stream,
\* or from the loop that reads it.
InferStreamRaises(at) ==
    /\ InferStreamRuns
    /\ at = "create" => engine_pc = "unstarted"
    /\ engine_pc' = "raised"
    /\ response_stream' = IF at = "create" THEN "unopened" ELSE "open"
    /\ UNCHANGED read_chunks

\* ---------------------------------------------------------------- converse
\* Mutant of AwaitingEvent: the next event is asked for while send_text
\* is still awaited.
AwaitingEventOrSending == pcs \in {"fetch", "send"}

\* The handler is at the head of the async for loop.
AwaitingEvent == pcs = "fetch"

\* The loop body starts with the event agent.invoke yielded.
LoopBody(event) ==
    /\ fetched' = Append(fetched, event)
    /\ state' = event
    /\ pcs' = "send"
    /\ UNCHANGED <<connected, channel, packet, send_calls, sent, send_failed>>

\* An except clause of the outer try, then the finally clause.
HandlerCatches ==
    /\ connected' = FALSE
    /\ pcs' = "returned"
    /\ UNCHANGED channel

\* The finally clause with connected still set: websocket.close(), whose
\* RuntimeError is ignored.
HandlerCloses ==
    /\ channel' = IF channel = "open" THEN "closed" ELSE channel
    /\ pcs' = "returned"
    /\ UNCHANGED connected

Accept ==
    /\ pcs = "accept"
    /\ connected' = TRUE
    /\ pcs' = "receive"
    /\ UNCHANGED <<channel, packet, state, fetched, send_calls, sent, send_failed,
                   agent_pc, engine_pc, response_stream, read_chunks>>
    /\ UNCHANGED outside_server

\* The client goes away, or the connection is lost.
ClientDisconnects ==
    /\ pcs \in {"receive", "fetch", "send"}
    /\ channel = "open"
    /\ channel' = "broken"
    /\ UNCHANGED <<pcs, connected, packet, state, fetched, send_calls, sent,
                   send_failed, agent_pc, engine_pc, response_stream, read_chunks>>
    /\ UNCHANGED outside_server

\* The packet is received and parsed and the agent is constructed.
ReceivePacket ==
    /\ pcs = "receive"
    /\ channel = "open"
    /\ packet = "valid"
    /\ pcs' = "fetch"
    /\ UNCHANGED <<connected, channel, packet, state, fetched, send_calls, sent,
                   send_failed, agent_pc, engine_pc, response_stream, read_chunks>>
    /\ UNCHANGED outside_server

\* receive_text, json.loads or ConversePacket.from_dict raises.
ReceiveFails ==
    /\ pcs = "receive"
    /\ channel = "broken" \/ packet # "valid"
    /\ HandlerCatches
    /\ UNCHANGED <<packet, state, fetched, send_calls, sent, send_failed,
                   agent_pc, engine_pc, response_stream, read_chunks>>
    /\ UNCHANGED outside_server

\* agent.invoke yields its first event.
FetchPerceiving ==
    /\ AwaitingEvent
    /\ agent_pc = "unstarted"
    /\ agent_pc' = "perceived"
    /\ LoopBody("perceiving")
    /\ UNCHANGED <<engine_pc, response_stream, read_chunks>>
    /\ UNCHANGED outside_server

\* agent.invoke fails before it reads the backend and yields a failed event.
FetchFailed ==
    /\ AwaitingEvent
    /\ agent_pc = "unstarted"
    /\ agent_pc' = "failing"
    /\ LoopBody("failed")
    /\ UNCHANGED <<engine_pc, response_stream, read_chunks>>
    /\ UNCHANGED outside_server

\* agent.invoke takes a chunk from infer_stream and yields its event.
FetchToken(curr_state) ==
    /\ AwaitingEvent
    /\ agent_pc \in {"perceived", "streaming"}
    /\ InferStreamYields
    /\ agent_pc' = "streaming"
    /\ LoopBody(curr_state)
    /\ UNCHANGED outside_server

\* agent.invoke gets the None sentinel and yields the done event.
FetchDone ==
    /\ AwaitingEvent
    /\ agent_pc \in {"perceived", "streaming"}
    /\ InferStreamEnds
    /\ agent_pc' = "done"
    /\ LoopBody("done")
    /\ UNCHANGED outside_server

\* infer_stream raises; agent.invoke yields a failed event.
FetchStreamRaises(at) ==
    /\ AwaitingEvent
    /\ agent_pc \in {"perceived", "streaming"}
    /\ InferStreamRaises(at)
    /\ agent_pc' = "failing"
    /\ LoopBody("failed")
    /\ UNCHANGED outside_server

\* agent.invoke raises again after its failed event.
FetchRaises ==
    /\ AwaitingEvent
    /\ agent_pc = "failing"
    /\ agent_pc' = "raised"
    /\ HandlerCatches
    /\ UNCHANGED <<packet, state, fetched, send_calls, sent, send_failed,
                   engine_pc, response_stream, read_chunks>>
    /\ UNCHANGED outside_server

\* agent.invoke gets the None sentinel and returns: the loop ends.
FetchReturns ==
    /\ AwaitingEvent
    /\ agent_pc \in {"perceived", "streaming"}
    /\ InferStreamEnds
    /\ agent_pc' = "returned"
    /\ HandlerCloses
    /\ UNCHANGED <<packet, state, fetched, send_calls, sent, send_failed>>
    /\ UNCHANGED outside_server

\* send_text returns: after a done event the loop is left.
SendCompletes ==
    /\ pcs = "send"
    /\ channel = "open"
    /\ send_calls' = send_calls + 1
    /\ sent' = Append(sent, state)
    /\ IF state = "done"
       THEN HandlerCloses
       ELSE /\ pcs' = "fetch"
            /\ UNCHANGED <<connected, channel>>
    /\ UNCHANGED <<packet, state, fetched, send_failed, agent_pc, engine_pc,
                   response_stream, read_chunks>>
    /\ UNCHANGED outside_server

\* Mutant of SendFails: the exception is swallowed and the loop goes on.
SendFailsContinues ==
    /\ pcs = "send"
    /\ send_calls' = send_calls + 1
    /\ send_failed' = TRUE
    /\ connected' = FALSE
    /\ pcs' = IF state = "done" THEN "returned" ELSE "fetch"
    /\ UNCHANGED <<channel, packet, state, fetched, sent, agent_pc, engine_pc,
                   response_stream, read_chunks>>
    /\ UNCHANGED outside_server

\* send_text raises: connected = False; return.
SendFails ==
    /\ pcs = "send"
    /\ send_calls' = send_calls + 1
    /\ send_failed' = TRUE
    /\ connected' = FALSE
    /\ pcs' = "returned"
    /\ UNCHANGED <<channel, packet, state, fetched, sent, agent_pc, engine_pc,
                   response_stream, read_chunks>>
    /\ UNCHANGED outside_server

\* The handler has returned and left infer_stream suspended at its yield:
\* when the generator is finalized, GeneratorExit is raised at the yield.
FinalizeGenerator ==
    /\ pcs = "returned"
    /\ engine_pc = "yielded"
    /\ engine_pc' = "exited"
    /\ UNCHANGED <<pcs, connected, channel, packet, state, fetched, send_calls,
                   sent, send_failed, agent_pc, response_stream, read_chunks>>
    /\ UNCHANGED outside_server

NextServer ==
    \/ Accept
    \/ ClientDisconnects
    \/ ReceivePacket
    \/ ReceiveFails
    \/ FetchPerceiving
    \/ FetchFailed
    \/ \E curr_state \in TokenStates : FetchToken(curr_state)
    \/ FetchDone
    \/ \E at \in {"create", "read"} : FetchStreamRaises(at)
    \/ FetchRaises
    \/ FetchReturns
    \/ SendCompletes
    \/ SendFails
    \/ FinalizeGenerator

SpecServer == InitServer /\ [][NextServer]_vars

\* ======================================================================
\* Two invocations at once: converse constructs one Agent per connection,
\* each runs Agent.invoke of altron_core/core3/agent.py on its own thread
\* id, and the event loop switches between them at their yields
\* ======================================================================
Invocations == {1, 2}
\* The user message of each connection.
ParMessage(i) == Message3("user", IF i = 1 THEN "u1" ELSE "u2", "ts2")

\* Mutant of ThreadObject: every invocation works on one MessageThread
\* object that the agents share.
ThreadObjectShared(i) == 1

\* The MessageThread an invocation works on: the local variable thread of
\* its own generator.
ThreadObject(i) == i

\* The responses of the invocation that are in its thread already.
Responded(i) ==
    Len(par_thread[ThreadObject(i)][1].messages) - Len(par_context[i])

InitPar ==
    /\ AgentIdle
    /\ store \in [ThreadIds -> StoredFiles]
    /\ store0 = store
    /\ thread_id = "t1"
    /\ user_message = Message3("user", "u1", "ts2")
    /\ pc3 = "idle"
    /\ thread = <<>>
    /\ responses = <<>>
    /\ next_response = 1
    /\ events = <<>>
    /\ infer_calls = 0
    /\ save_calls = 0
    /\ error3 = <<>>
    /\ StoreIdle
    /\ DbIdle
    /\ IeIdle
    /\ ToolsIdle
    /\ CtxIdle
    /\ ServerIdle
    /\ par_id \in {f \in [Invocations -> ThreadIds] : f[1] # f[2]}
    /\ par_pc = [i \in Invocations |-> "start"]
    /\ par_thread = [o \in Invocations |-> <<>>]
    /\ par_context = [i \in Invocations |-> <<>>]
    /\ par_responses = [i \in Invocations |-> <<>>]

\* Perceive: load_thread, append the user message; when the load raises
\* the failed packet is yielded and the exception raised again.
ParPerceive(i) ==
    LET r == LoadThread(store, par_id[i]) IN
    /\ par_pc[i] = "start"
    /\ IF r.error # <<>>
       THEN /\ par_pc' = [par_pc EXCEPT ![i] = "raised"]
            /\ UNCHANGED par_thread
       ELSE /\ par_pc' = [par_pc EXCEPT ![i] = "perceived"]
            /\ par_thread' = [par_thread EXCEPT ![ThreadObject(i)] =
                   <<[r.thread[1] EXCEPT !.messages = Append(@, ParMessage(i))]>>]
    /\ UNCHANGED <<store, store0, par_id, par_context, par_responses>>
    /\ UNCHANGED outside_par

\* Think: the engine is called on working_memory, the messages of the thread.
ParThink(i, rs) ==
    /\ par_pc[i] = "perceived"
    /\ par_context' = [par_context EXCEPT ![i] =
           par_thread[ThreadObject(i)][1].messages]
    /\ par_responses' = [par_responses EXCEPT ![i] = rs]
    /\ par_pc' = [par_pc EXCEPT ![i] = "thought"]
    /\ UNCHANGED <<store, store0, par_id, par_thread>>
    /\ UNCHANGED outside_par

\* Think, engine.infer raises: no handler, the exception leaves invoke.
ParInferRaises(i) ==
    /\ par_pc[i] = "perceived"
    /\ par_pc' = [par_pc EXCEPT ![i] = "raised"]
    /\ UNCHANGED <<store, store0, par_id, par_thread, par_context, par_responses>>
    /\ UNCHANGED outside_par

\* Respond: one turn of the loop over the responses.
ParRespond(i) ==
    /\ par_pc[i] = "thought"
    /\ Responded(i) \in 0..(Len(par_responses[i]) - 1)
    /\ par_thread' = [par_thread EXCEPT ![ThreadObject(i)] =
           <<[@[1] EXCEPT !.messages =
                 Append(@, par_responses[i][Responded(i) + 1])]>>]
    /\ UNCHANGED <<store, store0, par_id, par_pc, par_context, par_responses>>
    /\ UNCHANGED outside_par

\* Mutant of ParSave: the save is a merge, it writes the messages the file
\* holds now followed by the messages this invocation appended.
ParSaveMerges(i, outcome) ==
    LET mine == par_thread[ThreadObject(i)][1]
        now == MessagesFromDict(store[par_id[i]].messages)
        own == SubSeq(mine.messages, Len(par_context[i]), Len(mine.messages))
        r == SaveThread(store, [mine EXCEPT !.messages = now \o own], outcome)
    IN
    /\ par_pc[i] = "thought"
    /\ Responded(i) \notin 0..(Len(par_responses[i]) - 1)
    /\ store' = r.files
    /\ par_pc' = [par_pc EXCEPT ![i] =
                     IF r.error = <<>> THEN "returned" ELSE "raised"]
    /\ UNCHANGED <<store0, par_id, par_thread, par_context, par_responses>>
    /\ UNCHANGED outside_par

\* save_thread(thread) after the loop; when it raises the failed packet is
\* yielded and the exception raised again.
ParSave(i, outcome) ==
    LET r == SaveThread(store, par_thread[ThreadObject(i)][1], outcome) IN
    /\ par_pc[i] = "thought"
    /\ Responded(i) \notin 0..(Len(par_responses[i]) - 1)
    /\ store' = r.files
    /\ par_pc' = [par_pc EXCEPT ![i] =
                     IF r.error = <<>> THEN "returned" ELSE "raised"]
    /\ UNCHANGED <<store0, par_id, par_thread, par_context, par_responses>>
    /\ UNCHANGED outside_par

NextPar ==
    \/ \E i \in Invocations : ParPerceive(i)
    \/ \E i \in Invocations, rs \in ResponseLists : ParThink(i, rs)
    \/ \E i \in Invocations : ParInferRaises(i)
    \/ \E i \in Invocations : ParRespond(i)
    \/ \E i \in Invocations, outcome \in SaveOutcomes : ParSave(i, outcome)

SpecPar == InitPar /\ [][NextPar]_vars

\* Two invocations at once on the same thread id.
InitRace ==
    /\ AgentIdle
    /\ store \in [ThreadIds -> StoredFiles]
    /\ store0 = store
    /\ thread_id = "t1"
    /\ user_message = Message3("user", "u1", "ts2")
    /\ pc3 = "idle"
    /\ thread = <<>>
    /\ responses = <<>>
    /\ next_response = 1
    /\ events = <<>>
    /\ infer_calls = 0
    /\ save_calls = 0
    /\ error3 = <<>>
    /\ StoreIdle
    /\ DbIdle
    /\ IeIdle
    /\ ToolsIdle
    /\ CtxIdle
    /\ ServerIdle
    /\ par_id \in {f \in [Invocations -> ThreadIds] : f[1] = f[2]}
    /\ par_pc = [i \in Invocations |-> "start"]
    /\ par_thread = [o \in Invocations |-> <<>>]
    /\ par_context = [i \in Invocations |-> <<>>]
    /\ par_responses = [i \in Invocations |-> <<>>]

SpecRace == InitRace /\ [][NextPar]_vars

\* ------------------------------------------------------ DataBase (altron-db)
\* Calls of DataBase methods in one run.
MaxDbOps == 4

DbResult(files, err, res) == [files |-> files, error |-> err, result |-> res]

\* DataBase._validate_entry: os.path.exists(entry_path), the path resolved
\* against the working directory.
_validate_entry(files, dir, entry_path) ==
    IF files[PathJoin(dir, entry_path)] = NoFile
    THEN <<"EntryNotFoundError">>
    ELSE <<>>

\* DataBase.create_entry: the file is os.path.join(self._table_path, entry_name).
create_entry(files, entry_name, content) ==
    LET full_path == PathJoin(TablePath, entry_name)
    IN  IF files[full_path] # NoFile
        THEN DbResult(files, <<"FileExistsError">>, <<>>)
        ELSE DbResult([files EXCEPT ![full_path] = content], <<>>, <<>>)

\* DataBase.read_entry: validates and opens entry_name itself.
read_entry(files, dir, entry_name) ==
    LET err == _validate_entry(files, dir, entry_name)
    IN  IF err # <<>>
        THEN DbResult(files, err, <<>>)
        ELSE DbResult(files, <<>>, <<files[PathJoin(dir, entry_name)]>>)

\* DataBase.replace_entry: validates and opens entry_name itself for writing.
replace_entry(files, dir, entry_name, content) ==
    LET err == _validate_entry(files, dir, entry_name)
    IN  IF err # <<>>
        THEN DbResult(files, err, <<>>)
        ELSE DbResult([files EXCEPT ![PathJoin(dir, entry_name)] = content],
                      <<>>, <<>>)

\* DataBase.delete_entry: validates and removes entry_name itself.
delete_entry(files, dir, entry_name) ==
    LET err == _validate_entry(files, dir, entry_name)
    IN  IF err # <<>>
        THEN DbResult(files, err, <<>>)
        ELSE DbResult([files EXCEPT ![PathJoin(dir, entry_name)] = NoFile],
                      <<>>, <<>>)

\* DataBase(table_name) was constructed: the table directory exists and is
\* empty; the process runs in the table directory or somewhere else.
InitDb ==
    /\ AgentIdle
    /\ Core3Idle
    /\ held = <<>>
    /\ loaded_file = AbsentFile
    /\ appended = <<>>
    /\ last_op = [name |-> "none", id |-> "t1", error |-> <<>>, before |-> store]
    /\ op_count = 0
    /\ ServerIdle
    /\ ParIdle
    /\ disk = [path \in Paths |-> NoFile]
    /\ cwd \in Cwds
    /\ db_last =
         [op |-> "none", name |-> CHOOSE name \in EntryNames : TRUE,
          content |-> "c1", error |-> <<>>, result |-> <<>>]
    /\ db_count = 0
    /\ IeIdle
    /\ ToolsIdle
    /\ CtxIdle

\* One call of a DataBase method ended as `out`.
DbCalled(op, entry_name, content, out) ==
    /\ db_count < MaxDbOps
    /\ disk' = out.files
    /\ db_last' =
         [op |-> op, name |-> entry_name, content |-> content,
          error |-> out.error, result |-> out.result]
    /\ db_count' = db_count + 1
    /\ UNCHANGED <<cwd, outside_db>>

CreateEntry ==
    \E entry_name \in EntryNames, content \in Contents :
        DbCalled("create_entry", entry_name, content,
                 create_entry(disk, entry_name, content))

ReadEntry ==
    \E entry_name \in EntryNames :
        DbCalled("read_entry", entry_name, "c1",
                 read_entry(disk, cwd, entry_name))

ReplaceEntry ==
    \E entry_name \in EntryNames, content \in Contents :
        DbCalled("replace_entry", entry_name, content,
                 replace_entry(disk, cwd, entry_name, content))

DeleteEntry ==
    \E entry_name \in EntryNames :
        DbCalled("delete_entry", entry_name, "c1",
                 delete_entry(disk, cwd, entry_name))

NextDb ==
    \/ CreateEntry
    \/ ReadEntry
    \/ ReplaceEntry
    \/ DeleteEntry

SpecDb == InitDb /\ [][NextDb]_vars

\* ------------------------------------------- LMStudio_IE.infer_stream alone
\* Deltas the backend stream delivers in one call.
MaxDeltas == 3

\* A field of a delta, or of a TokenChunk, that is not set.
None == "None"
\* chunk.choices[0].delta.model_dump(): what the generator can read of it.
StreamDeltas ==
    [content : {None, "c"}, reasoning_content : {None, "r"},
     tool_calls : {None, "t"}]
TokenChunk(content, thought, tool_call) ==
    [content |-> content, thought |-> thought, tool_call |-> tool_call]

\* The TokenChunk infer_stream builds of a delta: content and thought;
\* tool_call keeps its default.
TokenChunkOf(stream_delta) ==
    TokenChunk(stream_delta.content, stream_delta.reasoning_content, None)

\* `if token_chunk.content is None and token_chunk.thought is None and
\* token_chunk.tool_call is None`
ChunkIsEmpty(token_chunk) ==
    /\ token_chunk.content = None
    /\ token_chunk.thought = None
    /\ token_chunk.tool_call = None

\* infer_stream is called on a backend that will deliver `deltas`.
InitIe ==
    /\ AgentIdle
    /\ Core3Idle
    /\ held = <<>>
    /\ loaded_file = AbsentFile
    /\ appended = <<>>
    /\ last_op = [name |-> "none", id |-> "t1", error |-> <<>>, before |-> store]
    /\ op_count = 0
    /\ ServerIdle
    /\ ParIdle
    /\ DbIdle
    /\ deltas \in UNION {[1..n -> StreamDeltas] : n \in 0..MaxDeltas}
    /\ ie_pc = "unstarted"
    /\ ie_read = 0
    /\ ie_yielded = <<>>
    /\ ToolsIdle
    /\ CtxIdle

\* The generator runs up to its next yield.
IeRuns == ie_pc \in {"unstarted", "yielded"}

\* One iteration of `for chunk in response_stream` that yields the chunk.
IeYieldsChunk ==
    /\ IeRuns
    /\ ie_read < Len(deltas)
    /\ ~ChunkIsEmpty(TokenChunkOf(deltas[ie_read + 1]))
    /\ ie_read' = ie_read + 1
    /\ ie_yielded' = Append(ie_yielded, TokenChunkOf(deltas[ie_read + 1]))
    /\ ie_pc' = "yielded"
    /\ UNCHANGED <<deltas, outside_ie>>

\* One iteration on a chunk found empty: break, close the stream, yield None.
IeBreaks ==
    /\ IeRuns
    /\ ie_read < Len(deltas)
    /\ ChunkIsEmpty(TokenChunkOf(deltas[ie_read + 1]))
    /\ ie_read' = ie_read + 1
    /\ ie_yielded' = Append(ie_yielded, None)
    /\ ie_pc' = "sentinel"
    /\ UNCHANGED <<deltas, outside_ie>>

\* The backend stream is exhausted: close the stream, yield None.
IeExhausted ==
    /\ IeRuns
    /\ ie_read = Len(deltas)
    /\ ie_yielded' = Append(ie_yielded, None)
    /\ ie_pc' = "sentinel"
    /\ UNCHANGED <<deltas, ie_read, outside_ie>>

\* The consumer asks for the item after None: the generator returns.
IeReturns ==
    /\ ie_pc = "sentinel"
    /\ ie_pc' = "done"
    /\ UNCHANGED <<deltas, ie_read, ie_yielded, outside_ie>>

\* The client raises while the stream is opened or read: the exception
\* leaves the generator.
IeRaises ==
    /\ IeRuns
    /\ ie_pc' = "raised"
    /\ UNCHANGED <<deltas, ie_read, ie_yielded, outside_ie>>

NextIe ==
    \/ IeYieldsChunk
    \/ IeBreaks
    \/ IeExhausted
    \/ IeReturns
    \/ IeRaises

SpecIe == InitIe /\ [][NextIe]_vars

\* ------------------------------------------------------------ ToolExecutor
\* Calls of set_tools, add_tools and remove_tools in one run, and the
\* length of a list of tools a caller passes.
MaxToolOps == 3
MaxToolList == 1

ToolLists == UNION {[1..n -> ToolObjects] : n \in 0..MaxToolList}
\* Names a caller can ask to remove: any subset, unknown names included.
RemovableNames == ToolNames \cup {"web_search"}

\* The last tool of that name in a list.
LastNamed(tools, name) ==
    tools[CHOOSE k \in DOMAIN tools :
             /\ tools[k].name = name
             /\ \A j \in DOMAIN tools : tools[j].name = name => j <= k]

\* {tool.name: tool for tool in tools}: a later tool replaces an earlier one
\* of the same name.
LookupOf(tools) ==
    [name \in ToolNames |->
        IF \E k \in DOMAIN tools : tools[k].name = name
        THEN LastNamed(tools, name)
        ELSE NoTool]

Executor(tools, lookup) == [_tools |-> tools, _lookup |-> lookup]

\* ToolExecutor.set_tools (and __init__)
set_tools(new_tools) == Executor(new_tools, LookupOf(new_tools))

\* Mutant of add_tools: the list is extended and the lookup is left alone.
add_tools_list_only(tools, lookup, new_tools) ==
    Executor(tools \o new_tools, lookup)

\* ToolExecutor.add_tools: extend the list, then `_lookup[tool.name] = tool`
\* for each new tool in turn.
add_tools(tools, lookup, new_tools) ==
    Executor(tools \o new_tools,
             [name \in ToolNames |->
                 IF \E k \in DOMAIN new_tools : new_tools[k].name = name
                 THEN LastNamed(new_tools, name)
                 ELSE lookup[name]])

\* The list comprehension of remove_tools.
RECURSIVE WithoutNames(_, _)
WithoutNames(tools, tool_names) ==
    IF tools = <<>>
    THEN <<>>
    ELSE (IF Head(tools).name \in tool_names THEN <<>> ELSE <<Head(tools)>>)
         \o WithoutNames(Tail(tools), tool_names)

\* ToolExecutor.remove_tools
remove_tools(tools, lookup, tool_names) ==
    Executor(WithoutNames(tools, tool_names),
             [name \in ToolNames |->
                 IF name \in tool_names THEN NoTool ELSE lookup[name]])

\* ToolExecutor.get_tools
get_tools == _tools

\* Tool.schema through convert_to_common_schema: the function name is the
\* tool's name.
SchemaOf(tool) == [type |-> "function", function |-> [name |-> tool.name]]

\* ToolExecutor.get_schemas
get_schemas == [k \in DOMAIN _tools |-> SchemaOf(_tools[k])]

\* ToolExecutor.execute_tool up to the call of the tool: the Tool it found,
\* or the ValueError.
execute_tool(tool_name) ==
    LET tool == IF tool_name \in DOMAIN _lookup THEN _lookup[tool_name] ELSE NoTool
    IN  IF tool = NoTool
        THEN [error |-> <<"Tool '", tool_name, "' not found.">>, tool |-> NoTool]
        ELSE [error |-> <<>>, tool |-> tool]

\* ToolExecutor(tools) was constructed.
InitTools ==
    /\ AgentIdle
    /\ Core3Idle
    /\ held = <<>>
    /\ loaded_file = AbsentFile
    /\ appended = <<>>
    /\ last_op = [name |-> "none", id |-> "t1", error |-> <<>>, before |-> store]
    /\ op_count = 0
    /\ ServerIdle
    /\ ParIdle
    /\ DbIdle
    /\ IeIdle
    /\ \E tools \in ToolLists :
          /\ _tools = set_tools(tools)._tools
          /\ _lookup = set_tools(tools)._lookup
    /\ tool_ops = 0
    /\ CtxIdle

\* One call on the executor left it as `ex`.
ToolsCalled(ex) ==
    /\ tool_ops < MaxToolOps
    /\ _tools' = ex._tools
    /\ _lookup' = ex._lookup
    /\ tool_ops' = tool_ops + 1
    /\ UNCHANGED outside_tools

SetTools ==
    \E new_tools \in ToolLists : ToolsCalled(set_tools(new_tools))

\* The caller passes a list of its own, or the list get_tools returned.
AddTools ==
    \E new_tools \in ToolLists \cup {get_tools} :
        ToolsCalled(add_tools(_tools, _lookup, new_tools))

RemoveTools ==
    \E tool_names \in SUBSET RemovableNames :
        ToolsCalled(remove_tools(_tools, _lookup, tool_names))

NextTools ==
    \/ SetTools
    \/ AddTools
    \/ RemoveTools

SpecTools == InitTools /\ [][NextTools]_vars

\* ------------------------------------------- ChatContextManager (core2)
\* Calls on the context manager in one run.
MaxCtxOps == 5

\* The max_messages a caller constructs the manager with.
CtxSizes == {2, 10}
\* The k-th message of the run.
CtxMessage(role, k) == [role |-> role, text |-> k]

\* ChatContextManager.add_context on a history: at the cap the oldest
\* message is popped, then the message is appended.
add_context(history, cap, message) ==
    Append(IF Len(history) >= cap THEN Tail(history) ELSE history, message)

\* ChatContextManager(max_messages = n): the attribute is set to 10.
InitCtx ==
    /\ AgentIdle
    /\ Core3Idle
    /\ held = <<>>
    /\ loaded_file = AbsentFile
    /\ appended = <<>>
    /\ last_op = [name |-> "none", id |-> "t1", error |-> <<>>, before |-> store]
    /\ op_count = 0
    /\ ServerIdle
    /\ ParIdle
    /\ DbIdle
    /\ IeIdle
    /\ ToolsIdle
    /\ max_messages_arg \in CtxSizes
    /\ max_messages = 10
    /\ chat_history = <<>>
    /\ ctx_added = <<>>
    /\ ctx_ops = 0

\* One call left the history as `history`; `exchange` are the messages the
\* call was about.
CtxCalled(history, exchange) ==
    /\ ctx_ops < MaxCtxOps
    /\ chat_history' = history
    /\ ctx_added' = ctx_added \o exchange
    /\ ctx_ops' = ctx_ops + 1
    /\ UNCHANGED <<max_messages_arg, max_messages, outside_ctx>>

\* A caller adds one message.
AddContext ==
    \E role \in {"user", "assistant"} :
        LET message == CtxMessage(role, Len(ctx_added) + 1) IN
        CtxCalled(add_context(chat_history, max_messages, message), <<message>>)

\* The body of Agent.invoke: add_context(perception); working_memory is
\* the list list_context returns, the history itself; add_context(response);
\* working_memory.append(response).
CtxInvoke ==
    LET perception == CtxMessage("user", Len(ctx_added) + 1)
        response == CtxMessage("assistant", Len(ctx_added) + 2)
        perceived == add_context(chat_history, max_messages, perception)
        reasoned == add_context(perceived, max_messages, response)
    IN  CtxCalled(Append(reasoned, response), <<perception, response>>)

\* Agent.invoke when the inference raises: the perception is in the history.
CtxInvokeRaises ==
    LET perception == CtxMessage("user", Len(ctx_added) + 1) IN
    CtxCalled(add_context(chat_history, max_messages, perception), <<perception>>)

\* The body of Agent._invoke: working_memory is the history itself and the
\* user message is appended to it; after the inference add_context(user_msg)
\* and add_context(init_response).
CtxInvokeAsync ==
    LET user_msg == CtxMessage("user", Len(ctx_added) + 1)
        init_response == CtxMessage("assistant", Len(ctx_added) + 2)
        working_memory == Append(chat_history, user_msg)
        with_user == add_context(working_memory, max_messages, user_msg)
    IN  CtxCalled(add_context(with_user, max_messages, init_response),
                  <<user_msg, init_response>>)

\* Agent._invoke when the inference raises: the user message stays appended.
CtxInvokeAsyncRaises ==
    LET user_msg == CtxMessage("user", Len(ctx_added) + 1) IN
    CtxCalled(Append(chat_history, user_msg), <<user_msg>>)

NextCtx ==
    \/ AddContext
    \/ CtxInvoke
    \/ CtxInvokeRaises
    \/ CtxInvokeAsync
    \/ CtxInvokeAsyncRaises

SpecCtx == InitCtx /\ [][NextCtx]_vars

\* ======================================================================
\* Properties of the tool-call accumulator and of the demultiplexer
\* ======================================================================
\* The fragments of this turn that took the tool-call branch.
IsToolFragment(chunk) == chunk.has_tool_calls
ToolChunks == SelectSeq(chunks, IsToolFragment)

\* The call a tool-call fragment belongs to: its id, or for a fragment
\* without id the call of the tool-call fragment before it.
RECURSIVE Owner(_, _)
Owner(T, j) ==
    IF T[j].id # NoId THEN T[j].id
    ELSE IF j = 1 THEN NoId ELSE Owner(T, j - 1)

IdsMentioned(T) == {T[j].id : j \in {k \in DOMAIN T : T[k].id # NoId}}

\* The argument fragments of call i, in arrival order.
RECURSIVE ArgsOfId(_, _, _)
ArgsOfId(T, i, j) ==
    IF j > Len(T) THEN <<>>
    ELSE (IF Owner(T, j) = i THEN <<T[j].arguments>> ELSE <<>>) \o ArgsOfId(T, i, j + 1)

\* The stream ended without an exception and its tool-request list is returned.
StreamReturned == pc \in {"decide", "tools"}

RunStarts(T) == {j \in DOMAIN T : j = 1 \/ Owner(T, j) # Owner(T, j - 1)}
KthStart(T, k) ==
    CHOOSE s \in RunStarts(T) : Cardinality({t \in RunStarts(T) : t < s}) = k - 1
RunEnd(T, s) ==
    IF \E t \in RunStarts(T) : t > s
    THEN (CHOOSE t \in RunStarts(T) :
             t > s /\ \A u \in RunStarts(T) : u > s => t <= u) - 1
    ELSE Len(T)
\* No id comes back after another id's fragments.
IdsContiguous(T) ==
    \A a, b, c \in DOMAIN T :
        (a < b /\ b < c /\ Owner(T, a) = Owner(T, c)) => Owner(T, b) = Owner(T, a)

IsContentToken(e) == e.kind = "content"
IsReasoningToken(e) == e.kind = "reasoning"
TokenText(es) == Concat([k \in DOMAIN es |-> es[k].token])
\* The deltas of one field carried by the fragments read, concatenated.
HasContent(chunk) == chunk.has_content
HasReasoning(chunk) == chunk.has_reasoning
ContentDeltas(cs) == [k \in DOMAIN cs |-> cs[k].content]
ReasoningDeltas(cs) == [k \in DOMAIN cs |-> cs[k].reasoning_content]

\* C2 as stated: per kind, the emitted tokens concatenated are exactly the
\* deltas of that field concatenated: nothing lost, nothing added, also for
\* a fragment that carries a tool-call field and a text field.
C2_TokensEqualDeltas ==
    /\ TokenText(SelectSeq(emitted, IsContentToken))
          = ContentDeltas(SelectSeq(chunks, HasContent))
    /\ TokenText(SelectSeq(emitted, IsReasoningToken))
          = ReasoningDeltas(SelectSeq(chunks, HasReasoning))

\* How _process_stream classifies a fragment: the first matching branch.
TakesContentBranch(chunk) == chunk.has_content /\ ~chunk.has_tool_calls
TakesReasoningBranch(chunk) ==
    chunk.has_reasoning /\ ~chunk.has_content /\ ~chunk.has_tool_calls
IsMarker(atom) == atom \in {ReasoningOpen, ReasoningClose}
NotMarker(atom) == ~IsMarker(atom)
Unmarked(text) == SelectSeq(text, NotMarker)

\* C2 (amended): per kind, the emitted tokens with the transition markers
\* removed, concatenated in order, are the deltas of the fragments that took
\* that branch, in order; the only text added is one marker in front of a
\* token; a fragment that took the tool-call branch emits no token.
C2_TokensEqualClassifiedDeltas ==
    /\ Unmarked(TokenText(SelectSeq(emitted, IsContentToken)))
          = ContentDeltas(SelectSeq(chunks, TakesContentBranch))
    /\ Unmarked(TokenText(SelectSeq(emitted, IsReasoningToken)))
          = ReasoningDeltas(SelectSeq(chunks, TakesReasoningBranch))
    /\ \A k \in DOMAIN emitted :
          \/ Len(emitted[k].token) = 1 /\ NotMarker(emitted[k].token[1])
          \/ /\ Len(emitted[k].token) = 2
             /\ emitted[k].token[1] =
                   (IF emitted[k].kind = "content" THEN ReasoningClose ELSE ReasoningOpen)
             /\ NotMarker(emitted[k].token[2])
    /\ Len(emitted) =
          Len(SelectSeq(chunks, TakesContentBranch))
              + Len(SelectSeq(chunks, TakesReasoningBranch))

\* Reasoning, then content, then a fragment with a tool call and a content
\* field have been read: two tokens were emitted, the second with a marker.
C2_Witness ==
    /\ Len(chunks) = 3
    /\ TakesReasoningBranch(chunks[1])
    /\ TakesContentBranch(chunks[2])
    /\ chunks[3].has_tool_calls /\ chunks[3].has_content
    /\ Len(emitted) = 2
    /\ emitted[2].token = <<ReasoningClose, chunks[2].content>>
    /\ error = <<>>

\* ======================================================================
\* Properties of the core3 invocation (Spec3)
\* ======================================================================
EventsOf(st) == {k \in DOMAIN events : events[k].prev_state = st}
\* The generator has ended: by returning, or by an exception.
Ended3 == pc3 \in {"returned", "raised"}

\* A responding event was emitted: a response with text was reached.
ReachedResponding == EventsOf("responding") # {}

\* C3: an invocation that completes without error emitted one perceiving
\* event, then thinking events, then responding events, then done, and no
\* thinking event after a responding one.
C3_LifecycleOrder ==
    pc3 = "returned" =>
        LET n == Len(events) IN
        /\ n >= 2
        /\ events[1].prev_state = "perceiving"
        /\ events[n].prev_state = "done"
        /\ \A k \in 2..(n - 1) : events[k].prev_state \in {"thinking", "responding"}
        /\ \A j, k \in 2..(n - 1) :
              (j < k /\ events[j].prev_state = "responding")
                  => events[k].prev_state # "thinking"

\* C4: an invocation that ended emitted exactly one terminal event: one done
\* event, the last one, or its last event is a failed event.
C4_OneTerminalEvent ==
    Ended3 =>
        /\ Cardinality(EventsOf("done")) <= 1
        /\ events # <<>>
        /\ events[Len(events)].prev_state \in {"done", "failed"}

\* C5: when the save fails after the responses were produced, the invocation
\* emits one failed event with the error text and then one done event, and
\* the content produced is still held in memory.
C5_SaveFailureThenDone ==
    (pc3 = "raised" /\ save_calls > 0 /\ ReachedResponding) =>
        /\ Cardinality(EventsOf("failed")) = 1
        /\ Cardinality(EventsOf("done")) = 1
        /\ Len(events) >= 2
        /\ events[Len(events) - 1].prev_state = "failed"
        /\ events[Len(events) - 1].error # <<>>
        /\ events[Len(events)].prev_state = "done"
        /\ \A k \in DOMAIN responses : responses[k].text # ""

\* C6: when the thread id names no stored thread, the invocation emits the
\* failed event with the store's message and ends; the engine is never
\* called and the store is never written.
UnknownId == store0[thread_id].state = "absent"
C6_UnknownIdFailsBeforeInference ==
    UnknownId =>
        /\ pc3 \in {"start", "load_failed", "raised"}
        /\ infer_calls = 0
        /\ save_calls = 0
        /\ store = store0
        /\ pc3 # "start" =>
              events = <<StatePacket("failed", "perceiving",
                             <<"Thread with ID ", thread_id, " does not exist.">>, "")>>

\* The invocation on an unknown id has ended with its failed event.
C6_Witness ==
    /\ UnknownId
    /\ pc3 = "raised"
    /\ Len(events) = 1
    /\ events[1].prev_state = "failed"

\* C7: whatever state raises, a failed event with an error description was
\* emitted before the event stream ended.
C7_FailedEventOnEveryRaise ==
    pc3 = "raised" =>
        \E k \in DOMAIN events :
            events[k].prev_state = "failed" /\ events[k].error # <<>>

\* The messages persisted for the thread of the invocation.
Persisted == MessagesFromDict(store[thread_id].messages)
PersistedBefore == MessagesFromDict(store0[thread_id].messages)

\* C8 as stated: an invocation that reached responding leaves exactly one
\* more agent message persisted, right after its user message.
C8_ExactlyOneAssistantPersisted ==
    (Ended3 /\ ReachedResponding) =>
        /\ store[thread_id].state = "ok"
        /\ Len(Persisted) = Len(PersistedBefore) + 2
        /\ SubSeq(Persisted, 1, Len(PersistedBefore)) = PersistedBefore
        /\ Persisted[Len(PersistedBefore) + 1] = user_message
        /\ Persisted[Len(PersistedBefore) + 2].role = "agent"

\* C8 (amended): when the save succeeds, the persisted thread is the loaded
\* one followed by the user message and then one agent message per message
\* the engine returned, in order (exactly one for a single choice); when
\* the save fails, no message of the invocation is persisted.
C8_PersistedWhenSaved ==
    /\ pc3 = "returned" =>
          /\ store[thread_id] =
                ThreadFile(store0[thread_id].title,
                           PersistedBefore \o <<user_message>> \o responses)
          /\ \A k \in DOMAIN responses :
                Persisted[Len(PersistedBefore) + 1 + k].role = "agent"
          /\ Len(responses) = 1 => Len(Persisted) = Len(PersistedBefore) + 2
    /\ pc3 \in {"save_failed", "raised"} =>
          store[thread_id] \in {store0[thread_id], CorruptFile}
    /\ \A t \in ThreadIds \ {thread_id} : store[t] = store0[t]

\* An invocation on a thread with earlier messages saved two responses.
C8_Witness ==
    /\ pc3 = "returned"
    /\ ReachedResponding
    /\ Len(responses) = 2
    /\ PersistedBefore # <<>>

\* ======================================================================
\* Properties of the streaming invocation (Spec)
\* ======================================================================
\* C9: when an invocation raises after response content was generated, it
\* has called save_thread or emitted an event that reports the failure.
C9_PartialContentNotLost ==
    (pc = "raised" /\ response_text # <<>>) =>
        \/ save_calls > 0
        \/ EventsOf("failed") # {}

\* C10: the context of the continuation is the context of the turn that
\* asked for tools, then one assistant message with empty content and all
\* tool calls in accumulator order, then one tool message per call, in the
\* same order, each with the id of its call.
C10_FollowupContext ==
    frames # <<>> =>
        LET outer == frames[Len(frames)]
            base == outer._messages
            reqs == outer.tool_requests
            n == Len(base)
        IN  /\ reqs # <<>>
            /\ Len(_messages) = n + 1 + Len(reqs)
            /\ SubSeq(_messages, 1, n) = base
            /\ _messages[n + 1].role = "assistant"
            /\ _messages[n + 1].content = <<>>
            /\ Len(_messages[n + 1].tool_calls) = Len(reqs)
            /\ \A k \in DOMAIN reqs :
                  /\ _messages[n + 1].tool_calls[k].id = reqs[k].id
                  /\ _messages[n + 1].tool_calls[k].function.name = reqs[k].name
                  /\ _messages[n + 1].tool_calls[k].function.arguments
                        = reqs[k].arguments
                  /\ _messages[n + 1 + k].role = "tool"
                  /\ _messages[n + 1 + k].tool_call_id = reqs[k].id

\* A turn that ended with two tool calls has been continued.
C10_Witness ==
    /\ frames # <<>>
    /\ pc = "streaming"
    /\ Len(frames[Len(frames)].tool_requests) = 2
    /\ frames[Len(frames)].tool_requests[1].id # frames[Len(frames)].tool_requests[2].id

\* ----------------------------------------------------------------- recursion
\* The positions, in the tokens the caller received, of the <TOOL_CALL>
\* tokens: the invocation at depth k yields the k-th right before it recurses.
ToolTokenIndexes == {j \in DOMAIN yielded : yielded[j][1] = ToolCallOpen}
RecursionStart(k) ==
    CHOOSE j \in ToolTokenIndexes :
        Cardinality({i \in ToolTokenIndexes : i < j}) = k - 1
\* What the caller received since the invocation at depth k recursed.
SinceRecursion(k) ==
    Concat(SubSeq(yielded, RecursionStart(k) + 1, Len(yielded)))

\* C11: every token the recursive invocation yields reaches the original
\* caller in the same order and unchanged (what each outer invocation
\* received from its recursion is what the caller received since, and it
\* starts with the tokens of the inner stream), and the Message the outer
\* invocation returns is the one the recursive invocation returned; the
\* outer invocation adds only its own closing "\n" after them.
C11_RecursionForwarded ==
    /\ \A k \in DOMAIN frames : frames[k].response_text = SinceRecursion(k)
    /\ (pc = "streaming" /\ frames # <<>>) =>
          /\ frames[Len(frames)].response_text = TokenText(emitted)
          /\ response_text = TokenText(emitted)
    /\ (pc = "returned" /\ ToolTokenIndexes # {}) =>
          /\ retval = <<Message("assistant", TokenText(emitted), <<>>, NoId)>>
          /\ SinceRecursion(1) = response_text \o <<NewLine>>

\* An invocation that recursed has returned the Message of a recursion that
\* yielded tokens.
C11_Witness ==
    /\ pc = "returned"
    /\ ToolTokenIndexes # {}
    /\ Len(emitted) >= 2
    /\ retval[1].content # <<>>

\* ----------------------------------------------------------- response buffer
\* The text delta of each fragment that took a text branch, in stream order.
TakesTextBranch(chunk) == TakesContentBranch(chunk) \/ TakesReasoningBranch(chunk)
TextDelta(chunk) ==
    IF TakesContentBranch(chunk) THEN chunk.content ELSE chunk.reasoning_content
TurnDeltas(cs) ==
    [k \in DOMAIN SelectSeq(cs, TakesTextBranch) |->
        TextDelta(SelectSeq(cs, TakesTextBranch)[k])]
\* The turn that produced the returned Message.
TurnReturned == pc \in {"returning", "returned"}

\* C12 as stated: a turn without tool calls returns the assistant Message
\* whose content is the content deltas of the turn concatenated, without
\* reasoning deltas and without markers.
C12_ResponseIsContentDeltas ==
    TurnReturned =>
        retval = <<Message("assistant",
                           ContentDeltas(SelectSeq(chunks, TakesContentBranch)),
                           <<>>, NoId)>>

\* C12 (amended): a turn without tool calls returns the assistant Message
\* whose content is every token the turn yielded, concatenated in order:
\* the content and the reasoning deltas in stream order with the transition
\* markers; it is the content deltas alone when the turn had no reasoning.
C12_ResponseIsTurnTokens ==
    TurnReturned =>
        /\ retval = <<Message("assistant", TokenText(emitted), <<>>, NoId)>>
        /\ Unmarked(retval[1].content) = TurnDeltas(chunks)
        /\ SelectSeq(chunks, TakesReasoningBranch) = <<>> =>
              retval[1].content = ContentDeltas(SelectSeq(chunks, TakesContentBranch))

\* A turn of one reasoning and two content fragments has returned.
C12_Witness ==
    /\ pc = "returned"
    /\ Len(chunks) = 3
    /\ TakesReasoningBranch(chunks[1])
    /\ TakesContentBranch(chunks[2])
    /\ TakesContentBranch(chunks[3])
    /\ retval[1].content =
          <<ReasoningOpen, chunks[1].reasoning_content, ReasoningClose,
            chunks[2].content, chunks[3].content>>

\* ------------------------------------------------------------ tool execution
\* The turn whose tool requests were answered, seen from its continuation:
\* the requests, and the tool message that answers request k.
AnsweredRequests == frames[Len(frames)].tool_requests
ToolMessage(k) == _messages[Len(frames[Len(frames)]._messages) + 1 + k]
\* The exception that left invoke.
DecodeFailed == pc = "raised" /\ error = <<"JSONDecodeError">>
IsToolNotFound(e) == Len(e) = 3 /\ e[3] = "' not found."
ToolNotFound == pc = "raised" /\ IsToolNotFound(error)

\* C13: arguments that are not JSON do not make the invocation fail: the
\* call is answered by a tool message that describes the decode error and
\* the conversation continues with the follow-up turn.
C13_DecodeErrorBecomesToolResponse ==
    /\ ~DecodeFailed
    /\ frames # <<>> =>
          \A k \in DOMAIN AnsweredRequests :
              ~JsonValid(AnsweredRequests[k].arguments) =>
                  /\ ToolMessage(k).role = "tool"
                  /\ ToolMessage(k).tool_call_id = AnsweredRequests[k].id
                  /\ ToolMessage(k).content # <<>>

\* C14: a request for a tool that is not registered does not make the
\* invocation fail: the executor returns an error string, the call is
\* answered by a tool message and the follow-up turn takes place.
C14_UnknownToolBecomesToolResponse ==
    /\ ~ToolNotFound
    /\ pc = "tools" =>
          \A k \in DOMAIN tool_requests :
              tool_requests[k].name \notin RegisteredTools =>
                  LET r == ExecuteTool(tool_requests[k].name, tool_requests[k].arguments)
                  IN  r.error = <<>> /\ r.content # <<>>
    /\ frames # <<>> =>
          \A k \in DOMAIN AnsweredRequests :
              AnsweredRequests[k].name \notin RegisteredTools =>
                  /\ ToolMessage(k).role = "tool"
                  /\ ToolMessage(k).tool_call_id = AnsweredRequests[k].id

\* C15: execute_tool on a name that is not registered raises an error that
\* names the tool; it returns no result string and runs no tool, so the
\* error reaches the caller of the invocation and no turn with such a
\* request is ever continued.
C15_UnknownToolRaises ==
    /\ pc = "tools" =>
          \A k \in DOMAIN tool_requests :
              tool_requests[k].name \notin RegisteredTools =>
                  LET r == ExecuteTool(tool_requests[k].name, tool_requests[k].arguments)
                  IN  /\ r.error = <<"ValueError: Tool '", tool_requests[k].name,
                                     "' not found.">>
                      /\ r.content = <<>>
    /\ ToolNotFound =>
          /\ error[2] \notin RegisteredTools
          /\ \E k \in DOMAIN tool_requests : tool_requests[k].name = error[2]
          /\ retval = <<>>
    /\ frames # <<>> =>
          \A k \in DOMAIN AnsweredRequests :
              AnsweredRequests[k].name \in RegisteredTools

\* The request for the unregistered tool has ended the invocation.
C15_Witness ==
    /\ ToolNotFound
    /\ error[2] = UnregisteredTool
    /\ tool_requests[Len(tool_requests)].name = UnregisteredTool

\* C16: an exception of a registered tool is returned by execute_tool as an
\* error string: it never leaves execute_tool, the call is answered with
\* that string and the requests after it are executed and answered too.
C16_ToolExceptionCaptured ==
    /\ pc = "raised" => error[1] # "Cannot divide by zero."
    /\ pc = "tools" =>
          \A k \in DOMAIN tool_requests :
              (/\ tool_requests[k].name \in RegisteredTools
               /\ JsonValid(tool_requests[k].arguments)) =>
                  ExecuteTool(tool_requests[k].name, tool_requests[k].arguments).error = <<>>
    /\ frames # <<>> =>
          /\ Len(_messages) =
                Len(frames[Len(frames)]._messages) + 1 + Len(AnsweredRequests)
          /\ \A k \in DOMAIN AnsweredRequests :
                /\ ToolMessage(k).tool_call_id = AnsweredRequests[k].id
                /\ ToolMessage(k).content =
                      (IF calculator(AnsweredRequests[k].arguments).raised
                       THEN <<"Error executing tool '", AnsweredRequests[k].name, "': ",
                              calculator(AnsweredRequests[k].arguments).text>>
                       ELSE <<calculator(AnsweredRequests[k].arguments).text>>)

\* A turn asked for 1 / 0 and then for 1 + 1: both calls were answered, the
\* first with the error string, the second with its result.
C16_Witness ==
    /\ frames # <<>>
    /\ Len(AnsweredRequests) = 2
    /\ AnsweredRequests[1].arguments = <<ArgDivide>>
    /\ ToolMessage(1).content =
          <<"Error executing tool '", "calculator", "': ", "Cannot divide by zero.">>
    /\ ToolMessage(2).content = <<"2">>

\* ------------------------------------------------- accumulator, special cases
\* The fragment read last, when it is a tool-call fragment without id.
LastChunkIdless ==
    /\ chunks # <<>>
    /\ chunks[Len(chunks)].has_tool_calls
    /\ chunks[Len(chunks)].id = NoId
InvalidShapeRaised ==
    pc = "raised" /\ error[1] = "ValueError: Invalid Tool Call Shape: "
\* Scenario B, and the same call with the id on its first fragment.
ScenarioB ==
    <<ToolFragment(NoId, "calculator", ArgOpen), ToolFragment("c1", NoName, ArgClose)>>
ScenarioBIdFirst ==
    <<ToolFragment("c1", "calculator", ArgOpen), ToolFragment(NoId, NoName, ArgClose)>>

\* C17 as stated: a fragment without id always continues the current call
\* (or opens it), so Scenario B, whose first fragment has the name and no
\* id, accumulates into the one request c1 with both argument fragments.
C17_IdlessFragmentContinues ==
    /\ LastChunkIdless =>
          /\ ~InvalidShapeRaised
          /\ prev_tool_request # <<>>
          /\ prev_tool_request[1].arguments[Len(prev_tool_request[1].arguments)]
                = chunks[Len(chunks)].arguments
    /\ (StreamReturned /\ ToolChunks = ScenarioB) =>
          tool_requests = <<ToolRequest("c1", "calculator", <<ArgOpen, ArgClose>>)>>

\* C17 (amended): a first tool-call fragment without id (or without name),
\* as in Scenario B, is rejected with the Invalid Tool Call Shape error that
\* carries the fragment, and nothing is accumulated; a fragment without id
\* continues the call in progress whenever there is one, so the call whose
\* first fragment carries id c1 and the name accumulates into one request.
C17_IdlessFragmentNeedsCurrentCall ==
    LET T == ToolChunks IN
    /\ (T # <<>> /\ (T[1].id = NoId \/ T[1].name = NoName)) =>
          /\ InvalidShapeRaised
          /\ Len(T) = 1
          /\ chunks[Len(chunks)] = T[1]
          /\ error = <<"ValueError: Invalid Tool Call Shape: ", T[1].id, T[1].name,
                       T[1].arguments>>
          /\ prev_tool_request = <<>>
          /\ tool_requests = <<>>
    /\ (LastChunkIdless /\ Len(T) >= 2) =>
          /\ ~InvalidShapeRaised
          /\ prev_tool_request # <<>>
          /\ prev_tool_request[1].id = Owner(T, Len(T) - 1)
          /\ prev_tool_request[1].arguments[Len(prev_tool_request[1].arguments)]
                = T[Len(T)].arguments
          /\ Len(prev_tool_request[1].arguments) >= 2
    /\ (StreamReturned /\ T = ScenarioBIdFirst) =>
          tool_requests = <<ToolRequest("c1", "calculator", <<ArgOpen, ArgClose>>)>>

\* The first fragment of Scenario B has been read.
C17_Witness ==
    /\ ToolChunks = <<ScenarioB[1]>>
    /\ InvalidShapeRaised
    /\ tool_requests = <<>>

\* The ids of a sequence, each kept where it occurs first.
RECURSIVE FirstOccurrences(_)
FirstOccurrences(ids) ==
    IF ids = <<>> THEN <<>>
    ELSE LET before == FirstOccurrences(SubSeq(ids, 1, Len(ids) - 1))
             last == ids[Len(ids)]
         IN  IF \E k \in DOMAIN before : before[k] = last
             THEN before ELSE Append(before, last)
HasId(chunk) == chunk.id # NoId
\* The ids of the stream in the order in which they were first seen.
FirstSeenIds(T) ==
    FirstOccurrences([k \in DOMAIN SelectSeq(T, HasId) |-> SelectSeq(T, HasId)[k].id])
RequestIds == [k \in DOMAIN tool_requests |-> tool_requests[k].id]

\* C18: the returned list names the calls in the order in which their ids
\* were first seen in the stream, whatever the values of the ids (a list
\* that names an id again is compared by the first entry of each id).
C18_FirstSeenOrder ==
    StreamReturned =>
        /\ FirstOccurrences(RequestIds) = FirstSeenIds(ToolChunks)
        /\ IdsContiguous(ToolChunks) => RequestIds = FirstSeenIds(ToolChunks)

\* A stream that named c2 before c1 returned the calls in that order.
C18_Witness ==
    /\ StreamReturned
    /\ RequestIds = <<"c2", "c1">>

\* The fragments of the call in progress when the stream ends: the last run.
LastRunStart(T) == CHOOSE s \in RunStarts(T) : \A t \in RunStarts(T) : t <= s
LastRunArguments(T) ==
    [j \in 1..(Len(T) - LastRunStart(T) + 1) |-> T[LastRunStart(T) + j - 1].arguments]

\* C19: when the stream ends, by exhaustion or by an empty delta, the call
\* in progress is the last element of the returned list, with the arguments
\* accumulated so far.
C19_FlushAtStreamEnd ==
    StreamReturned =>
        /\ prev_tool_request # <<>> =>
              /\ tool_requests # <<>>
              /\ tool_requests[Len(tool_requests)] = prev_tool_request[1]
        /\ ToolChunks # <<>> =>
              /\ tool_requests # <<>>
              /\ tool_requests[Len(tool_requests)].id = Owner(ToolChunks, Len(ToolChunks))
              /\ tool_requests[Len(tool_requests)].arguments
                    = LastRunArguments(ToolChunks)

\* The empty delta arrived while the call c1 had half of its arguments.
C19_Witness ==
    /\ pc = "decide"
    /\ Len(chunks) = 2
    /\ DeltaIsEmpty(chunks[2])
    /\ tool_requests = <<ToolRequest(chunks[1].id, "calculator", <<ArgOpen>>)>>

\* ------------------------------------------------------------ malformed chunk
IsUnknownFragment(chunk) ==
    /\ ~DeltaIsEmpty(chunk)
    /\ ~chunk.has_tool_calls
    /\ ~chunk.has_content
    /\ ~chunk.has_reasoning
MalformedRaised ==
    pc = "raised" /\ error[1] = "ValueError: Unexpected chunk format. "

\* C20: a fragment with a non-empty delta and no recognised field ends the
\* stream with an error that carries the fragment: it is the last fragment
\* read, it is read once, the last token yielded is the one before it, and
\* neither a tool-call list nor a Message is returned.
C20_MalformedChunkFails ==
    (chunks # <<>> /\ IsUnknownFragment(chunks[Len(chunks)])) =>
        /\ MalformedRaised
        /\ Len(error) = 2
        /\ error[2] = chunks[Len(chunks)]
        /\ retval = <<>>
        /\ Cardinality({k \in DOMAIN chunks : IsUnknownFragment(chunks[k])}) = 1
        /\ Len(emitted) = Len(SelectSeq(chunks, TakesTextBranch))
        /\ IF emitted # <<>>
           THEN yielded[Len(yielded)] = emitted[Len(emitted)].token
           ELSE yielded = <<>> \/ yielded[Len(yielded)][1] = ToolCallOpen

\* A malformed fragment arrived after a token had been yielded.
C20_Witness ==
    /\ MalformedRaised
    /\ Len(chunks) = 2
    /\ Len(emitted) = 1
    /\ yielded[Len(yielded)] = emitted[1].token

\* --------------------------------------------------------- transition markers
\* The kind of the token before token k of the stream; a stream starts
\* outside reasoning.
KindBefore(k) == IF k = 1 THEN "content" ELSE emitted[k - 1].kind
HasMarker(token) == \E j \in DOMAIN token : IsMarker(token[j])

\* C21: a token carries a marker exactly when its kind differs from the kind
\* before it: the opening marker in front of the first reasoning token after
\* non-reasoning output, the closing marker in front of the first content
\* token after reasoning, and no marker on a token of the same kind.
C21_MarkersAtBoundaries ==
    /\ \A k \in DOMAIN emitted :
          IF emitted[k].kind # KindBefore(k)
          THEN /\ Len(emitted[k].token) = 2
               /\ emitted[k].token[1] =
                     (IF emitted[k].kind = "reasoning"
                      THEN ReasoningOpen ELSE ReasoningClose)
               /\ NotMarker(emitted[k].token[2])
          ELSE ~HasMarker(emitted[k].token)
    /\ is_reasoning = (emitted # <<>> /\ emitted[Len(emitted)].kind = "reasoning")

\* Two reasoning tokens and a content token: markers on the first and third.
C21_Witness ==
    /\ Len(emitted) = 3
    /\ emitted[1].kind = "reasoning" /\ emitted[1].token[1] = ReasoningOpen
    /\ emitted[2].kind = "reasoning" /\ ~HasMarker(emitted[2].token)
    /\ emitted[3].kind = "content" /\ emitted[3].token[1] = ReasoningClose

\* ---------------------------------------------------------- empty message list
EmptyListRaised ==
    pc = "raised" /\ error = <<"ValueError: Message list cannot be empty.">>

\* C22: invoke on an empty message list raises before any token is yielded
\* and before the backend is asked for a stream, and the list stays empty.
C22_EmptyListFailsFirst ==
    /\ messages = <<>> =>
          /\ pc \in {"called", "raised"}
          /\ yielded = <<>>
          /\ emitted = <<>>
          /\ chunks = <<>>
          /\ consumed = 0
          /\ _messages = <<>>
          /\ retval = <<>>
          /\ pc = "raised" => EmptyListRaised
    /\ EmptyListRaised => messages = <<>> /\ frames = <<>>

\* The invocation on the empty list has raised.
C22_Witness ==
    /\ EmptyListRaised
    /\ messages = <<>>
    /\ yielded = <<>>

\* ======================================================================
\* Properties of the store functions (SpecStore)
\* ======================================================================
\* The file the last call was about, before the call and now.
FileBefore == last_op.before[last_op.id]
FileAfter == store[last_op.id]
\* The caller saved the thread it holds when its file was no longer there.
SavedAfterRemoval == last_op.name = "save" /\ FileBefore.state = "absent"

\* C23: saving a thread whose file was removed after the thread was loaded
\* fails with the not-found error and does not create the file again.
C23_SaveAfterRemoveFails ==
    SavedAfterRemoval =>
        /\ last_op.error = <<"Thread with ID ", last_op.id, " does not exist.">>
        /\ FileAfter.state = "absent"

\* C24: create_thread never writes over an existing file: when the path of
\* the generated id exists, it fails with the already-exists error and the
\* file is unchanged; when it succeeds, the store has one file more, with
\* an empty message list, and the thread returned is that one; when it
\* fails otherwise, no thread file was added. No other file is touched.
C24_CreateNeverOverwrites ==
    last_op.name = "create" =>
        /\ \A t \in ThreadIds \ {last_op.id} : store[t] = last_op.before[t]
        /\ FileBefore.state # "absent" =>
              /\ last_op.error =
                    <<"Thread with ID ", last_op.id, " already exists.">>
              /\ FileAfter = FileBefore
        /\ (FileBefore.state = "absent" /\ last_op.error = <<>>) =>
              /\ FileAfter.state = "ok"
              /\ FileAfter.messages = <<>>
              /\ held = <<[id |-> last_op.id, title |-> FileAfter.title,
                           messages |-> <<>>]>>
        /\ (FileBefore.state = "absent" /\ last_op.error # <<>>) =>
              FileAfter.state \in {"absent", "corrupt"}

\* create_thread generated the id of a thread that has messages.
C24_Witness ==
    /\ last_op.name = "create"
    /\ FileBefore.state = "ok"
    /\ FileBefore.messages # <<>>
    /\ last_op.error # <<>>

\* The caller saved the thread it holds, and the file was as it was when
\* the thread was loaded.
SavedLoaded ==
    /\ last_op.name = "save"
    /\ last_op.error = <<>>
    /\ loaded_file.state = "ok"
    /\ FileBefore = loaded_file

\* C25: a save of a loaded thread changes the persisted messages only by
\* the messages appended since the load: with none appended they are the
\* same, with one appended there is one more, and every earlier message is
\* the same JSON object at the same position.
C25_SaveRoundTrip ==
    SavedLoaded =>
        /\ FileAfter.state = "ok"
        /\ FileAfter.title = FileBefore.title
        /\ Len(FileAfter.messages) = Len(FileBefore.messages) + Len(appended)
        /\ SubSeq(FileAfter.messages, 1, Len(FileBefore.messages)) =
              FileBefore.messages
        /\ \A k \in DOMAIN appended :
              FileAfter.messages[Len(FileBefore.messages) + k] =
                  MessageAsDict(appended[k])

\* A thread with earlier messages was loaded, one message was appended and
\* the thread was saved.
C25_Witness ==
    /\ SavedLoaded
    /\ Len(appended) = 1
    /\ FileBefore.messages # <<>>

\* ======================================================================
\* Properties of the websocket handler (SpecServer)
\* ======================================================================
\* The events fetched that carry a token of the backend stream.
TokenEvents == {k \in DOMAIN fetched : fetched[k] \in TokenStates}

\* C26: once a call of send_text has raised, the handler fetches no
\* further event, no further chunk is read from the backend stream, and
\* send_text is not called again: the handler has returned.
C26_NothingAfterFailedSend ==
    [][send_failed =>
          /\ fetched' = fetched
          /\ read_chunks' = read_chunks
          /\ send_calls' = send_calls
          /\ sent' = sent
          /\ pcs' = "returned"]_vars

\* A send failed while the backend stream was open and had more to give.
C26_Witness ==
    /\ send_failed
    /\ pcs = "returned"
    /\ response_stream = "open"
    /\ read_chunks < MaxStreamChunks
    /\ sent # <<>>

\* C27: when the handler has returned and infer_stream will not run again,
\* the backend stream it opened has been closed.
C27_StreamReleased ==
    (pcs = "returned" /\ engine_pc # "yielded") => response_stream # "open"

\* C28: at most one fetched event has not been accepted by the websocket;
\* the handler asks for the next event only when every fetched event was
\* accepted, and the backend has given one chunk per token event fetched.
C28_OneUnsentEvent ==
    /\ Len(fetched) - Len(sent) \in {0, 1}
    /\ pcs = "fetch" => Len(fetched) = Len(sent)
    /\ pcs = "send" =>
          /\ Len(fetched) = Len(sent) + 1
          /\ state = fetched[Len(fetched)]
    /\ read_chunks = Cardinality(TokenEvents)
    /\ read_chunks <= Len(sent) + 1

\* Two events were accepted and the handler waits for the websocket to
\* accept the third, the second token of the backend stream.
C28_Witness ==
    /\ pcs = "send"
    /\ channel = "open"
    /\ Len(sent) = 2
    /\ read_chunks = 2
    /\ state \in TokenStates

\* C29: when the handler has returned, the client has been sent a done
\* event or the connection is closed.
C29_EndsWithDoneOrClose ==
    pcs = "returned" =>
        \/ channel # "open"
        \/ sent # <<>> /\ sent[Len(sent)] = "done"

\* ======================================================================
\* Properties of two invocations at once (SpecPar)
\* ======================================================================
\* What the thread of an invocation held when both started.
ParBefore(i) == MessagesFromDict(store0[par_id[i]].messages)

C31_SameEntry ==
    /\ (db_last.op \in {"create_entry", "replace_entry"} /\ db_last.error = <<>>)
        => read_entry(disk, cwd, db_last.name).result = <<db_last.content>>
    /\ (db_last.op = "delete_entry" /\ db_last.error = <<>>)
        => create_entry(disk, db_last.name, "c1").error = <<>>

\* ------------------------------------------------------------------- C32
\* Both invocations loaded the thread file as it was at the start.
BothLoadedBeforeSaves ==
    \A i \in Invocations :
        /\ par_pc[i] \in {"thought", "returned"}
        /\ par_context[i] = ParBefore(i) \o <<ParMessage(i)>>

\* The messages of a sequence.
Range(seq) == {seq[k] : k \in DOMAIN seq}

\* C32: no mutual exclusion per thread id: when two invocations on one id
\* both load before either saves, the save that returns last replaces the
\* file the first one wrote; the persisted conversation is then the last
\* saver's and misses the message the first saver appended.
C32_LastSaveWins ==
    [][\A i, j \in Invocations :
          (/\ i # j
           /\ par_id[i] = par_id[j]
           /\ BothLoadedBeforeSaves
           /\ par_pc[i] = "returned"
           /\ par_pc[j] = "thought"
           /\ par_pc'[j] = "returned")
          => /\ store'[par_id[j]] =
                    ThreadFile(store0[par_id[j]].title,
                        ParBefore(j) \o <<ParMessage(j)>> \o par_responses[j])
             /\ ParMessage(i) \notin
                    Range(MessagesFromDict(store'[par_id[j]].messages))]_vars

\* Both invocations loaded the same file, the first saved its user message
\* and responses, then the second saved: the file is the second one's.
C32_Witness ==
    /\ par_id[1] = par_id[2]
    /\ BothLoadedBeforeSaves
    /\ par_pc = [i \in Invocations |-> "returned"]
    /\ par_responses[1] # <<>>
    /\ ParBefore(1) # <<>>
    /\ store[par_id[2]] =
           ThreadFile(store0[par_id[2]].title,
               ParBefore(2) \o <<ParMessage(2)>> \o par_responses[2])

CallerList == IF frames = <<>> THEN messages ELSE frames[1].messages
CallerInput == IF frames = <<>> THEN _messages ELSE frames[1]._messages

\* C34: invoke leaves the caller's message list as the caller made it; no
\* system message is inserted into it.
C34_CallerListUnchanged ==
    pc # "called" => CallerList = CallerInput

\* ------------------------------------------------------------------- C35
\* The system messages of a context.
SystemMessages(msgs) == {k \in DOMAIN msgs : msgs[k].role = "system"}

\* C35: the context every model call of an invocation sends to the backend
\* (inference.chat(messages=_messages)) begins with the system message of
\* the role's prompt and holds no other system message.
C35_ContextStartsWithPrompt ==
    pc = "streaming" =>
        /\ _messages # <<>>
        /\ _messages[1] = SystemPrompt
        /\ SystemMessages(_messages) = {1}

\* ------------------------------------------------------------------- C36
\* The tokens of the turn that carry the opening and the closing marker.
OpeningTokens ==
    {k \in DOMAIN emitted :
        emitted[k].token # <<>> /\ emitted[k].token[1] = ReasoningOpen}
ClosingTokens ==
    {k \in DOMAIN emitted :
        emitted[k].token # <<>> /\ emitted[k].token[1] = ReasoningClose}

\* C36: when the token sequence of a turn has ended, every opening reasoning
\* marker in it is followed by a closing marker.
C36_MarkersMatched ==
    pc = "decide" =>
        \A k \in OpeningTokens : \E j \in ClosingTokens : j > k

\* ------------------------------------------------------------------- C37
\* engine.infer raised: the exception left invoke after the user message
\* was appended to the loaded thread.
InferenceFailed ==
    /\ pc3 = "raised"
    /\ infer_calls = 1
    /\ error3 = <<"inference failed">>
    /\ thread # <<>>
    /\ thread[1].messages[Len(thread[1].messages)] = user_message

\* C37: when the inference call raises, nothing is written to the store:
\* every thread file is as it was before the invocation, save_thread was
\* not called and the user message of the invocation is not persisted.
C37_FailedInferencePersistsNothing ==
    InferenceFailed =>
        /\ store = store0
        /\ save_calls = 0
        /\ Persisted = PersistedBefore
        /\ user_message \notin Range(Persisted)

\* The inference call of an invocation on a thread with earlier messages
\* has raised.
C37_Witness ==
    /\ InferenceFailed
    /\ PersistedBefore # <<>>
    /\ Len(thread[1].messages) = Len(PersistedBefore) + 1

\* ------------------------------------------------------------------- C38
\* A delta that carries content, reasoning or tool-call data.
CarriesData(stream_delta) ==
    \/ stream_delta.content # None
    \/ stream_delta.reasoning_content # None
    \/ stream_delta.tool_calls # None

\* The deltas before the first one that carries nothing.
RECURSIVE DataPrefix(_)
DataPrefix(ds) ==
    IF ds = <<>> \/ ~CarriesData(Head(ds))
    THEN <<>>
    ELSE <<Head(ds)>> \o DataPrefix(Tail(ds))

\* C38: infer_stream yields one TokenChunk for each delta that carries
\* content, reasoning or tool-call data, in order, up to the first delta
\* that carries none of them or the end of the stream, and then None once
\* as its last item.
C38_ChunkPerDeltaThenNone ==
    ie_pc \in {"sentinel", "done"} =>
        LET ds == DataPrefix(deltas) IN
        /\ Len(ie_yielded) = Len(ds) + 1
        /\ \A k \in DOMAIN ds :
              /\ ie_yielded[k] # None
              /\ ie_yielded[k].content = ds[k].content
              /\ ie_yielded[k].thought = ds[k].reasoning_content
        /\ ie_yielded[Len(ie_yielded)] = None

\* ------------------------------------------------------------------- C39
\* The names execute_tool resolves, and the names get_schemas advertises.
ExecutableNames ==
    {name \in RemovableNames : execute_tool(name).error = <<>>}
AdvertisedNames ==
    {get_schemas[k].function.name : k \in DOMAIN get_schemas}

\* C39: after any calls of set_tools, add_tools and remove_tools the names
\* execute_tool resolves are the names of the tools in get_tools, each
\* resolves to a tool of that name in the list, and a name is executable
\* exactly when get_schemas advertises a schema for it.
C39_LookupMatchesTools ==
    /\ ExecutableNames = {get_tools[k].name : k \in DOMAIN get_tools}
    /\ \A name \in ExecutableNames :
          /\ execute_tool(name).tool \in Range(get_tools)
          /\ execute_tool(name).tool.name = name
    /\ ExecutableNames = AdvertisedNames

\* After all the calls the list holds two tools of one name and no tool of
\* another name, and the lookup resolves the name to the later of the two.
C39_Witness ==
    /\ tool_ops = MaxToolOps
    /\ \E i, j \in DOMAIN _tools :
          /\ i < j
          /\ _tools[i].name = _tools[j].name
          /\ _tools[i] # _tools[j]
          /\ execute_tool(_tools[j].name).tool = _tools[j]
    /\ Cardinality(ExecutableNames) = 1

\* ------------------------------------------------------------------- C40
\* The last n messages of a sequence.
LastOf(seq, n) ==
    IF Len(seq) <= n THEN seq ELSE SubSeq(seq, Len(seq) - n + 1, Len(seq))

\* C40: a ChatContextManager constructed with max_messages = n holds at
\* most n messages: the most recently added ones, in order, each message
\* of an exchange once.
C40_HistoryWithinMax ==
    /\ Len(chat_history) <= max_messages_arg
    /\ chat_history = LastOf(ctx_added, max_messages_arg)

====
